---- MODULE Spec2Model ----
(***************************************************************************)
(* Model of the "All Available Players" page (players.js): the fetch of    *)
(* the player list, the sortable available-players table, the coverage     *)
(* rank computed while rendering and the in-place sort driven by header    *)
(* clicks (Spec); the heatmap colour of a stat cell, getRankColor         *)
(* (SpecHeatmap); and the Start Days cell of the free-agent table,         *)
(* formatBackToBackDays of api.js (SpecDays).                              *)
(*                                                                         *)
(* Representation.  A JavaScript object is a function whose DOMAIN is the  *)
(* set of properties it has, so an absent property is a name outside the   *)
(* DOMAIN.  A string is the sequence of its UTF-16 code units, so that     *)
(* the relational operators of JavaScript on strings are the               *)
(* lexicographic order on sequences.  Numbers are integers (projection     *)
(* values scaled to integers).  Every player object carries an id, its     *)
(* object identity (the index it had in the decoded response).             *)
(***************************************************************************)
EXTENDS Integers, Sequences, FiniteSets, TLC

VARIABLES
    phase,                   \* "loading" | "ready" | "error": position of fetchAndDisplayData
    response,                \* the response of /api/all-players in flight, NoResponse once consumed
    allAvailablePlayersData, \* players.js:19
    currentSort,             \* players.js:20
    clicked,                 \* data-sort-key of the header clicked last, "none" before any click
    tbody,                   \* rows of #availablePlayersTable as rendered by populateTableBody
    cellStat,                \* stat of the stat cell being rendered
    cellRank,                \* the rank read for the cell: null, undefined or a number
    cellStyle,               \* the colorStyle of the cell once rendered
    dayString,               \* start_days of the free agent being rendered, split at ", "
    formattedDays,           \* the formatted Start Days cell once rendered
    httpCall,                \* the function of api.js given the response: handleResponse or checkAuthStatus
    httpResponse,            \* the Response fetch resolved to: status, content-type header, body
    httpOutcome,             \* how the promise of the function settled, and its effects on the window
    leagueId,                \* what getSelectedLeagueId() yields, "" when no league is chosen
    myTeamSelector,          \* <select id="myTeamSelector">: its options and its value
    opponentSelector,        \* <select id="opponentSelector">
    currentRosterData,       \* main.js:43, the entries of the object in insertion order
    freeAgentStartIndex,     \* main.js:42
    allFreeAgents,           \* main.js:44
    containers,              \* what each section of the page shows
    addPlayer,               \* <select id="add-player-i">, i in 0..3
    dropPlayer,              \* <select id="drop-player-i">
    transDate,               \* value of <input id="trans-date-i">
    requests,                \* the requests awaiting their response, in the order of their issue
    analyses,                \* the runs of handleRunAnalysis: its three handlers and populateTransactionSimulator
    lastFreeAgentsRequest    \* history: the free-agent request issued last and how it settled

pageVars == <<phase, response, allAvailablePlayersData, currentSort, clicked, tbody>>

cellVars == <<cellStat, cellRank, cellStyle>>

dayVars == <<dayString, formattedDays>>

apiVars == <<httpCall, httpResponse, httpOutcome>>

\* The state of the main page (api.js, main.js, ui.js).
mainVars == <<leagueId, myTeamSelector, opponentSelector, currentRosterData,
              freeAgentStartIndex, allFreeAgents, containers, addPlayer, dropPlayer,
              transDate, requests, analyses, lastFreeAgentsRequest>>

appVars == <<apiVars, mainVars>>

vars == <<phase, response, allAvailablePlayersData, currentSort, clicked, tbody,
          cellStat, cellRank, cellStyle, dayString, formattedDays,
          httpCall, httpResponse, httpOutcome,
          leagueId, myTeamSelector, opponentSelector, currentRosterData,
          freeAgentStartIndex, allFreeAgents, containers, addPlayer, dropPlayer,
          transDate, requests, analyses, lastFreeAgentsRequest>>

\* Largest number of players in one response.
MaxRows == 3

----------------------------------------------------------------------------
(* Objects and strings *)

Has(obj, prop) == prop \in DOMAIN obj

\* obj with property prop set to v (assignment obj.prop = v).
SetProp(obj, prop, v) ==
    [p \in (DOMAIN obj) \cup {prop} |-> IF p = prop THEN v ELSE obj[p]]

\* String.prototype.includes for a one-character search string.
Includes(str, ch) == \E i \in 1..Len(str) : str[i] = ch

Min2(a, b) == IF a < b THEN a ELSE b

\* s < t on strings: compare code units at the first difference, a proper
\* prefix is smaller.
StrLess(s, t) ==
    LET n == Min2(Len(s), Len(t))
        diff == {i \in 1..n : s[i] # t[i]}
    IN  IF diff = {} THEN Len(s) < Len(t)
        ELSE LET d == CHOOSE i \in diff : \A j \in diff : i <= j
             IN  s[d] < t[d]

----------------------------------------------------------------------------
(* Program constants *)

STATS_TO_DISPLAY == <<"g", "a", "pts", "ppp", "sog", "hit", "blk", "w", "so", "svpct", "gaa">>

\* data-sort-key of the sortable headers, in column order.
SortKeys ==
    <<"name", "team", "availability", "positions", "games_this_week", "cat_coverage_rank">>
    \o STATS_TO_DISPLAY

SortKeySet == {SortKeys[i] : i \in 1..Len(SortKeys)}

GoalieRanksToSum == <<"w_cat_rank", "so_cat_rank", "svpct_cat_rank", "gaa_cat_rank">>

SkaterRanksToSum ==
    <<"g_cat_rank", "a_cat_rank", "pts_cat_rank", "ppp_cat_rank", "hit_cat_rank",
      "blk_cat_rank", "sog_cat_rank">>

defaultAsc == {"cat_coverage_rank", "name", "team", "positions", "availability", "gaa"}

StringKeys == {"name", "team", "availability", "positions"}

inverseSortStats == {"gaa"}

\* Code unit of 'G'.
GoalieTag == 71

MissingCoverageRank == 999

MissingStat == -1

----------------------------------------------------------------------------
(* Coverage rank and rendering: populateTableBody *)

RECURSIVE SumRanks(_, _, _)
\* ranksToSum.forEach(rankStat => totalRank += projections[rankStat] || 0),
\* from position i on.
SumRanks(projections, ranksToSum, i) ==
    IF i > Len(ranksToSum) THEN 0
    ELSE (IF Has(projections, ranksToSum[i]) THEN projections[ranksToSum[i]] ELSE 0)
         + SumRanks(projections, ranksToSum, i + 1)

\* computeCoverageRank without the goalie branch: every player summed over
\* the skater ranks.
computeCoverageRankSkaterOnly(player) ==
    IF ~Has(player, "per_game_projections") THEN 0
    ELSE SumRanks(player.per_game_projections, SkaterRanksToSum, 1)

\* totalRank of one player (the body of players.forEach up to the assignment
\* of player.cat_coverage_rank); positions is present where this is used.
computeCoverageRank(player) ==
    IF ~Has(player, "per_game_projections") THEN 0
    ELSE IF Includes(player.positions, GoalieTag)
         THEN SumRanks(player.per_game_projections, GoalieRanksToSum, 1)
         ELSE SumRanks(player.per_game_projections, SkaterRanksToSum, 1)

\* player.positions.includes on an absent positions raises a TypeError,
\* before cat_coverage_rank is assigned.
ThrowsBeforeRank(player) ==
    Has(player, "per_game_projections") /\ ~Has(player, "positions")

\* player.weekly_projections[stat] on an absent weekly_projections raises a
\* TypeError, after cat_coverage_rank was assigned.
ThrowsAfterRank(player) == ~Has(player, "weekly_projections")

\* The <tr> appended for one player: whose row it is and the Cat Coverage
\* Rank cell.
RenderRow(player, totalRank) == [id |-> player.id, totalRank |-> totalRank]

RECURSIVE populateTableBody(_, _, _)
\* populateTableBody from player i on, rows being the <tr> appended so far.
\* Yields the players (mutated in place), the rows of the tbody and whether
\* the loop was left by an exception.
populateTableBody(players, i, rows) ==
    IF i > Len(players) THEN [players |-> players, rows |-> rows, threw |-> FALSE]
    ELSE IF ThrowsBeforeRank(players[i])
         THEN [players |-> players, rows |-> rows, threw |-> TRUE]
         ELSE LET totalRank == computeCoverageRank(players[i])
                  ranked == [players EXCEPT
                                ![i] = SetProp(players[i], "cat_coverage_rank", totalRank)]
              IN  IF ThrowsAfterRank(players[i])
                  THEN [players |-> ranked, rows |-> rows, threw |-> TRUE]
                  ELSE populateTableBody(ranked, i + 1,
                                         Append(rows, RenderRow(players[i], totalRank)))

----------------------------------------------------------------------------
(* Sorting: addTableSorting and sortAndRerenderTable *)

\* toggleSort taking the default direction also for the current key.
toggleSortNoFlip(current, sortKey) ==
    [key |-> sortKey, direction |-> IF sortKey \in defaultAsc THEN "asc" ELSE "desc"]

\* The click listener's choice of the new sort state.
toggleSort(current, sortKey) ==
    [key |-> sortKey,
     direction |-> IF current.key = sortKey
                   THEN (IF current.direction = "asc" THEN "desc" ELSE "asc")
                   ELSE (IF sortKey \in defaultAsc THEN "asc" ELSE "desc")]

\* isNumeric with positions left out of the list of string columns.
isNumericPositionsForgotten(key) == key \notin {"name", "team", "availability"}

isNumeric(key) == key \notin StringKeys

\* sortValue with an absent weekly projection counted as 0, the default of
\* the rendered cell, instead of -1.
sortValueMissingAsZero(player, key) ==
    IF key = "cat_coverage_rank"
    THEN (IF Has(player, "cat_coverage_rank") /\ player.cat_coverage_rank # 0
          THEN player.cat_coverage_rank ELSE MissingCoverageRank)
    ELSE IF isNumeric(key)
         THEN (IF Has(player.weekly_projections, key)
               THEN player.weekly_projections[key] ELSE 0)
         ELSE (IF Has(player, key) THEN player[key] ELSE <<>>)

\* valA / valB of the comparator.
sortValue(player, key) ==
    IF key = "cat_coverage_rank"
    THEN (IF Has(player, "cat_coverage_rank") /\ player.cat_coverage_rank # 0
          THEN player.cat_coverage_rank ELSE MissingCoverageRank)
    ELSE IF isNumeric(key)
         THEN (IF Has(player.weekly_projections, key)
               THEN player.weekly_projections[key] ELSE MissingStat)
         ELSE (IF Has(player, key) THEN player[key] ELSE <<>>)

\* valA > valB, on numbers or on strings.
Greater(valA, valB, key) ==
    IF isNumeric(key) THEN valA > valB ELSE StrLess(valB, valA)

\* compare without the inversion for the inverse stats.
compareNoInverse(a, b, key, direction) ==
    LET valA == sortValue(a, key)
        valB == sortValue(b, key)
        comparison == IF Greater(valA, valB, key) THEN 1
                      ELSE IF Greater(valB, valA, key) THEN -1 ELSE 0
    IN  IF direction = "asc" THEN comparison ELSE -comparison

\* compare returning the comparison unchanged for either direction.
compareIgnoresDirection(a, b, key, direction) ==
    LET valA == sortValue(a, key)
        valB == sortValue(b, key)
        comparison == IF Greater(valA, valB, key) THEN 1
                      ELSE IF Greater(valB, valA, key) THEN -1 ELSE 0
    IN  IF isNumeric(key) /\ key \in inverseSortStats THEN -comparison ELSE comparison

\* The comparator handed to Array.prototype.sort.
compare(a, b, key, direction) ==
    LET valA == sortValue(a, key)
        valB == sortValue(b, key)
        comparison == IF Greater(valA, valB, key) THEN 1
                      ELSE IF Greater(valB, valA, key) THEN -1 ELSE 0
        inverted == IF isNumeric(key) /\ key \in inverseSortStats
                    THEN -comparison ELSE comparison
    IN  IF direction = "asc" THEN inverted ELSE -inverted

RECURSIVE InsertSortedBeforeEqual(_, _, _, _)
\* InsertSorted placing x in front of the elements it compares equal to.
InsertSortedBeforeEqual(s, x, key, direction) ==
    IF s = <<>> THEN <<x>>
    ELSE IF compare(s[Len(s)], x, key, direction) >= 0
         THEN Append(InsertSortedBeforeEqual(SubSeq(s, 1, Len(s) - 1), x, key, direction),
                     s[Len(s)])
         ELSE Append(s, x)

RECURSIVE InsertSorted(_, _, _, _)
\* Insert x into the sorted sequence s, behind every element that does not
\* compare greater than x.
InsertSorted(s, x, key, direction) ==
    IF s = <<>> THEN <<x>>
    ELSE IF compare(s[Len(s)], x, key, direction) > 0
         THEN Append(InsertSorted(SubSeq(s, 1, Len(s) - 1), x, key, direction), s[Len(s)])
         ELSE Append(s, x)

RECURSIVE ArraySortDropsEqual(_, _, _)
\* ArraySort losing an element that compares equal to its predecessor in
\* the array.
ArraySortDropsEqual(arr, key, direction) ==
    IF arr = <<>> THEN <<>>
    ELSE IF Len(arr) >= 2 /\ compare(arr[Len(arr) - 1], arr[Len(arr)], key, direction) = 0
         THEN ArraySortDropsEqual(SubSeq(arr, 1, Len(arr) - 1), key, direction)
         ELSE InsertSorted(ArraySortDropsEqual(SubSeq(arr, 1, Len(arr) - 1), key, direction),
                           arr[Len(arr)], key, direction)

RECURSIVE ArraySort(_, _, _)
\* Array.prototype.sort with the comparator above: a stable sort (ECMAScript
\* 2019), here by insertion from the left.
ArraySort(arr, key, direction) ==
    IF arr = <<>> THEN <<>>
    ELSE InsertSorted(ArraySort(SubSeq(arr, 1, Len(arr) - 1), key, direction),
                      arr[Len(arr)], key, direction)

\* sortAndRerenderTable: sort the stored players in place, then render them.
sortAndRerenderTable(players, sortConfig) ==
    populateTableBody(ArraySort(players, sortConfig.key, sortConfig.direction), 1, <<>>)

----------------------------------------------------------------------------
(* Responses of /api/all-players *)

\* Player objects a response may carry.  Strings are code-unit sequences:
\* <<65>> is "A", <<66>> "B", <<67>> "C", <<71>> "G", <<67, 44, 71>> "C,G",
\* <<70, 65>> "FA", <<87>> "W", <<84>> "T".
SkaterRanked ==
    [name |-> <<66>>, team |-> <<84>>, availability |-> <<70, 65>>, positions |-> <<67>>,
     games_this_week |-> 3,
     weekly_projections |-> [g |-> 2, pts |-> 3],
     per_game_projections |-> [g_cat_rank |-> 4, pts_cat_rank |-> 2, w_cat_rank |-> 9]]

SkaterTied ==
    [name |-> <<66, 65>>, team |-> <<84>>, availability |-> <<87>>, positions |-> <<67>>,
     games_this_week |-> 3,
     weekly_projections |-> [g |-> 2, pts |-> 1, gaa |-> 1],
     per_game_projections |-> [a_cat_rank |-> 6]]

GoalieRanked ==
    [name |-> <<65, 66>>, team |-> <<66>>, availability |-> <<70, 65>>, positions |-> <<71>>,
     games_this_week |-> 4,
     weekly_projections |-> [w |-> 2, gaa |-> 2],
     per_game_projections |->
        [w_cat_rank |-> 3, so_cat_rank |-> 5, svpct_cat_rank |-> 2, gaa_cat_rank |-> 1,
         g_cat_rank |-> 7, pts_cat_rank |-> 20]]

GoalieAnonymous ==
    [positions |-> <<67, 44, 71>>,
     games_this_week |-> 1,
     weekly_projections |-> [w |-> 1, gaa |-> 3, pts |-> 0],
     per_game_projections |-> [w_cat_rank |-> 1, g_cat_rank |-> 5]]

PlayerBare ==
    [name |-> <<>>, games_this_week |-> 0, weekly_projections |-> [so |-> 0]]

PlayerNoWeekly ==
    [name |-> <<67>>, positions |-> <<67>>, games_this_week |-> 2]

Pool ==
    {SkaterRanked, SkaterTied, GoalieRanked, GoalieAnonymous, PlayerBare, PlayerNoWeekly}

\* The sequences of at most n distinct elements of S: a response lists a
\* player once.
DistinctSeqsUpTo(S, n) ==
    UNION {{f \in [1..m -> S] : \A i, j \in 1..m : i # j => f[i] # f[j]} : m \in 0..n}

\* response.json(): every decoded player is an object of its own.
Decode(players) == [i \in 1..Len(players) |-> SetProp(players[i], "id", i)]

NoResponse == [status |-> "none"]

Responses ==
    {[status |-> "ok", available_players |-> Decode(ps)] : ps \in DistinctSeqsUpTo(Pool, MaxRows)}
    \cup {[status |-> "error"]}

----------------------------------------------------------------------------
(* The page *)

\* No stat cell under consideration.
CellIdle ==
    /\ cellStat = "g"
    /\ cellRank = [kind |-> "undefined"]
    /\ cellStyle = [rendered |-> FALSE]

\* No Start Days cell under consideration.
DaysIdle ==
    /\ dayString = <<>>
    /\ formattedDays = [done |-> FALSE]

\* No response of the main page's API under consideration.
ApiIdle ==
    /\ httpCall = "none"
    /\ httpResponse = [status |-> 0]
    /\ httpOutcome = [settled |-> FALSE]

MAX_TRANSACTIONS == 4

\* Largest number of runs of handleRunAnalysis under way at once.
MaxRuns == 2

\* No run of handleRunAnalysis.
NoRun == [matchup |-> "none", utilization |-> "none", freeAgents |-> "none", populated |-> 0]

\* No request.
NoRequest == [status |-> "none"]

TransactionRows == 0..(MAX_TRANSACTIONS - 1)

\* A <select>: the values of its options in order and its value, "" when no
\* option is selected.
Select(options, value) == [options |-> options, value |-> value]

\* The sections of the page, all empty.
ContainersCleared ==
    [rosters |-> [view |-> "empty"], matchup |-> [view |-> "empty"],
     optimizer |-> [view |-> "empty"], utilization |-> [view |-> "empty"],
     freeAgent |-> [view |-> "empty"]]

\* The main page as the DOMContentLoaded listener and initializeMainView
\* leave it before any league is chosen: no rosters, no free agents, the
\* transaction rows as createTransactionRows builds them.
MainLoaded ==
    /\ leagueId = ""
    /\ myTeamSelector = Select(<<>>, "")
    /\ opponentSelector = Select(<<>>, "")
    /\ currentRosterData = <<>>
    /\ freeAgentStartIndex = 0
    /\ allFreeAgents = <<>>
    /\ containers = ContainersCleared
    /\ addPlayer = [i \in TransactionRows |-> Select(<<"">>, "")]
    /\ dropPlayer = [i \in TransactionRows |-> Select(<<"">>, "")]
    /\ transDate = [i \in TransactionRows |-> ""]
    /\ requests = <<>>
    /\ analyses = [a \in 1..MaxRuns |-> NoRun]
    /\ lastFreeAgentsRequest = NoRequest

\* The main page is not under consideration.
AppIdle == ApiIdle /\ MainLoaded

Init ==
    /\ phase = "loading"
    /\ response \in Responses
    /\ allAvailablePlayersData = <<>>
    /\ currentSort = [key |-> "cat_coverage_rank", direction |-> "asc"]
    /\ clicked = "none"
    /\ tbody = <<>>
    /\ CellIdle
    /\ DaysIdle
    /\ AppIdle

\* fetchAndDisplayData leaving the table marked and sorted by name.
FetchAndDisplayDataSortsByName ==
    /\ phase = "loading"
    /\ response' = NoResponse
    /\ currentSort' = [key |-> "name", direction |-> "asc"]
    /\ UNCHANGED <<clicked, cellVars, dayVars, appVars>>
    /\ IF response.status # "ok"
       THEN /\ phase' = "error"
            /\ UNCHANGED <<allAvailablePlayersData, tbody>>
       ELSE \E shown \in {sortAndRerenderTable(response.available_players, currentSort')} :
                /\ allAvailablePlayersData' = shown.players
                /\ phase' = IF shown.threw THEN "error" ELSE "ready"
                /\ tbody' = IF shown.threw THEN <<>> ELSE shown.rows

\* fetchAndDisplayData from the arrival of the response on: store the
\* players, create the empty table, addTableSorting with its initial sort;
\* a response that is not ok, or an exception while rendering, ends in the
\* catch block, which replaces the table by an error message.
FetchAndDisplayData ==
    /\ phase = "loading"
    /\ response' = NoResponse
    /\ UNCHANGED <<currentSort, clicked, cellVars, dayVars, appVars>>
    /\ IF response.status # "ok"
       THEN /\ phase' = "error"
            /\ UNCHANGED <<allAvailablePlayersData, tbody>>
       ELSE \E shown \in {sortAndRerenderTable(response.available_players, currentSort)} :
                /\ allAvailablePlayersData' = shown.players
                /\ phase' = IF shown.threw THEN "error" ELSE "ready"
                /\ tbody' = IF shown.threw THEN <<>> ELSE shown.rows

\* A click listener that fetches the list again instead of sorting the
\* stored one.
ClickHeaderRefetches(sortKey) ==
    /\ phase = "ready"
    /\ currentSort' = toggleSort(currentSort, sortKey)
    /\ clicked' = sortKey
    /\ phase' = "loading"
    /\ response' \in Responses
    /\ allAvailablePlayersData' = <<>>
    /\ tbody' = <<>>
    /\ UNCHANGED <<cellVars, dayVars, appVars>>

\* The click listener of the sortable header with data-sort-key sortKey.
ClickHeader(sortKey) ==
    /\ phase = "ready"
    /\ currentSort' = toggleSort(currentSort, sortKey)
    /\ clicked' = sortKey
    /\ \E shown \in {sortAndRerenderTable(allAvailablePlayersData, currentSort')} :
           /\ allAvailablePlayersData' = shown.players
           /\ tbody' = shown.rows
    /\ UNCHANGED <<phase, response, cellVars, dayVars, appVars>>

Next ==
    \/ FetchAndDisplayData
    \/ \E sortKey \in SortKeySet : ClickHeader(sortKey)

Spec == Init /\ [][Next]_vars

----------------------------------------------------------------------------
(* Vocabulary of the properties *)

\* The array the sort of the current step works on: the players of the
\* response when the step is the completion of the fetch, the stored
\* players when it is a header click.
SortInput ==
    IF phase = "loading" THEN response.available_players ELSE allAvailablePlayersData

\* Position of the player with identity id in players.
PosOf(players, id) == CHOOSE i \in 1..Len(players) : players[i].id = id

\* The sorted array is no longer in the order of the response.
Reordered == \E i \in 1..Len(allAvailablePlayersData) : allAvailablePlayersData[i].id # i

Reverse(seq) == [i \in 1..Len(seq) |-> seq[Len(seq) + 1 - i]]

\* A per-game category rank of a player, 0 when it is not there.
RankOr0(player, rankStat) ==
    IF Has(player, "per_game_projections") /\ Has(player.per_game_projections, rankStat)
    THEN player.per_game_projections[rankStat] ELSE 0

IsGoalie(player) ==
    Has(player, "positions") /\ \E i \in DOMAIN player.positions : player.positions[i] = 71

\* The coverage rank as the data model defines it.
RoleRankSum(player) ==
    IF IsGoalie(player)
    THEN RankOr0(player, "w_cat_rank") + RankOr0(player, "so_cat_rank")
         + RankOr0(player, "svpct_cat_rank") + RankOr0(player, "gaa_cat_rank")
    ELSE RankOr0(player, "g_cat_rank") + RankOr0(player, "a_cat_rank")
         + RankOr0(player, "pts_cat_rank") + RankOr0(player, "ppp_cat_rank")
         + RankOr0(player, "hit_cat_rank") + RankOr0(player, "blk_cat_rank")
         + RankOr0(player, "sog_cat_rank")

\* The weekly projection of a player for a stat, -1 when it has none.
StatOrMinus1(player, stat) ==
    IF stat \in DOMAIN player.weekly_projections
    THEN player.weekly_projections[stat] ELSE 0 - 1

\* A string field of a player, the empty string when it has none.
FieldOrEmpty(player, field) == IF field \in DOMAIN player THEN player[field] ELSE <<>>

RECURSIVE LexLeq(_, _)
\* s <= t in the lexicographic order of code units.
LexLeq(s, t) ==
    IF s = <<>> THEN TRUE
    ELSE IF t = <<>> THEN FALSE
    ELSE IF Head(s) # Head(t) THEN Head(s) < Head(t)
    ELSE LexLeq(Tail(s), Tail(t))

Rows == 1..Len(allAvailablePlayersData)

----------------------------------------------------------------------------
(* C1 *)

\* C1: whenever the table is sorted by cat_coverage_rank, the initial sort
\* included, every row the comparator compares carries a cat_coverage_rank
\* equal to the sum computed from its per_game_projections.
C1_ComparatorReadsFreshRank ==
    [][(phase' = "ready" /\ currentSort'.key = "cat_coverage_rank" /\ Len(SortInput) >= 2)
        => \A i \in 1..Len(SortInput) :
              /\ Has(SortInput[i], "cat_coverage_rank")
              /\ SortInput[i].cat_coverage_rank = RoleRankSum(SortInput[i])]_vars

----------------------------------------------------------------------------
(* C2 *)

\* C2: the coverage rank shown for a row, and stored on the player, is the
\* sum of the goalie ranks for a player whose positions contain G and of the
\* skater ranks otherwise, absent ranks and absent projections counting 0;
\* the goalie with w=3, so=5, svpct=2, gaa=1 gets 11 whatever skater ranks
\* it carries.
C2_CoverageRankIsRoleSum ==
    phase = "ready" =>
        /\ Len(tbody) = Len(allAvailablePlayersData)
        /\ \A i \in Rows :
              LET player == allAvailablePlayersData[i]
              IN  /\ tbody[i].id = player.id
                  /\ tbody[i].totalRank = RoleRankSum(player)
                  /\ player.cat_coverage_rank = RoleRankSum(player)
                  /\ ~Has(player, "per_game_projections") => tbody[i].totalRank = 0
                  /\ (/\ IsGoalie(player)
                      /\ RankOr0(player, "w_cat_rank") = 3
                      /\ RankOr0(player, "so_cat_rank") = 5
                      /\ RankOr0(player, "svpct_cat_rank") = 2
                      /\ RankOr0(player, "gaa_cat_rank") = 1) => tbody[i].totalRank = 11

\* A goalie shown with 11 although it carries skater ranks, next to a skater
\* with a non-zero sum and a player without per-game projections.
C2_Witness ==
    /\ phase = "ready"
    /\ \E i \in Rows :
          /\ IsGoalie(allAvailablePlayersData[i])
          /\ RankOr0(allAvailablePlayersData[i], "g_cat_rank") > 0
          /\ tbody[i].totalRank = 11
    /\ \E i \in Rows :
          /\ ~IsGoalie(allAvailablePlayersData[i])
          /\ RankOr0(allAvailablePlayersData[i], "w_cat_rank") > 0
          /\ tbody[i].totalRank = 6
    /\ \E i \in Rows :
          /\ ~Has(allAvailablePlayersData[i], "per_game_projections")
          /\ tbody[i].totalRank = 0

----------------------------------------------------------------------------
(* C3 *)

\* The value a displayed coverage rank sorts by: a row lacking a rank (shown
\* as 0) counts as 999.
ShownRankOr999(i) == IF tbody[i].totalRank = 0 THEN 999 ELSE tbody[i].totalRank

\* C3: while the sort state is cat_coverage_rank ascending, the coverage
\* ranks displayed are non-decreasing from top to bottom, the rows lacking a
\* rank last.
C3_AscendingCoverageRankDisplay ==
    (phase = "ready" /\ currentSort = [key |-> "cat_coverage_rank", direction |-> "asc"])
        => \A i, j \in 1..Len(tbody) : i < j => ShownRankOr999(i) <= ShownRankOr999(j)

----------------------------------------------------------------------------
(* C4 *)

PlainStats == {"g", "a", "pts", "ppp", "sog", "hit", "blk", "w", "so", "svpct"}

\* C4: under a numeric stat key other than gaa the rows are ordered by their
\* weekly projection for the key, an absent one counting -1: descending puts
\* the rows without a value behind every row with a value, ascending in
\* front of them.
C4_NumericStatOrder ==
    (phase = "ready" /\ currentSort.key \in PlainStats) =>
        \A i, j \in Rows :
            LET a == allAvailablePlayersData[i]
                b == allAvailablePlayersData[j]
                key == currentSort.key
            IN  i < j =>
                  /\ currentSort.direction = "desc"
                        => /\ StatOrMinus1(a, key) >= StatOrMinus1(b, key)
                           /\ ~(key \notin DOMAIN a.weekly_projections
                                /\ key \in DOMAIN b.weekly_projections
                                /\ b.weekly_projections[key] >= 0)
                  /\ currentSort.direction = "asc"
                        => /\ StatOrMinus1(a, key) <= StatOrMinus1(b, key)
                           /\ ~(key \in DOMAIN a.weekly_projections
                                /\ a.weekly_projections[key] >= 0
                                /\ key \notin DOMAIN b.weekly_projections)

\* Sorted by pts descending: the sort moved rows, a row with the value 0 is
\* shown and a row without a value is shown behind it.
C4_Witness ==
    /\ phase = "ready"
    /\ currentSort = [key |-> "pts", direction |-> "desc"]
    /\ Reordered
    /\ \E i, j \in Rows :
          /\ i < j
          /\ StatOrMinus1(allAvailablePlayersData[i], "pts") = 0
          /\ "pts" \notin DOMAIN allAvailablePlayersData[j].weekly_projections

----------------------------------------------------------------------------
(* C5 *)

\* C5: under key gaa the order is the inverse of the other numeric stats:
\* descending lists the lowest raw gaa first, a row without gaa (-1) at the
\* top, and ascending lists the highest raw gaa first, a row without gaa at
\* the bottom.
C5_GaaInverted ==
    (phase = "ready" /\ currentSort.key = "gaa") =>
        \A i, j \in Rows :
            LET a == allAvailablePlayersData[i]
                b == allAvailablePlayersData[j]
            IN  i < j =>
                  /\ currentSort.direction = "desc"
                        => StatOrMinus1(a, "gaa") <= StatOrMinus1(b, "gaa")
                  /\ currentSort.direction = "asc"
                        => StatOrMinus1(a, "gaa") >= StatOrMinus1(b, "gaa")

\* Sorted by gaa descending after two clicks: the sort moved rows, a row
\* without gaa is on top and two rows with different gaa follow in rising
\* order.
C5_Witness ==
    /\ phase = "ready"
    /\ currentSort = [key |-> "gaa", direction |-> "desc"]
    /\ Reordered
    /\ Len(allAvailablePlayersData) >= 3
    /\ "gaa" \notin DOMAIN allAvailablePlayersData[1].weekly_projections
    /\ StatOrMinus1(allAvailablePlayersData[2], "gaa") >= 0
    /\ StatOrMinus1(allAvailablePlayersData[2], "gaa")
          < StatOrMinus1(allAvailablePlayersData[3], "gaa")

----------------------------------------------------------------------------
(* C6 *)

\* C6: under a string key (name, team, positions, availability) the rows are
\* in the lexicographic order of the field, an absent field counting as the
\* empty string; ascending never puts a greater string above a smaller one,
\* descending never a smaller above a greater.
C6_StringOrder ==
    (phase = "ready" /\ currentSort.key \in {"name", "team", "positions", "availability"}) =>
        \A i, j \in Rows :
            LET a == FieldOrEmpty(allAvailablePlayersData[i], currentSort.key)
                b == FieldOrEmpty(allAvailablePlayersData[j], currentSort.key)
            IN  i < j =>
                  /\ currentSort.direction = "asc" => LexLeq(a, b)
                  /\ currentSort.direction = "desc" => LexLeq(b, a)

\* Sorted by positions ascending: the sort moved rows, a row without
\* positions is on top and a row with positions follows.
C6_Witness ==
    /\ phase = "ready"
    /\ currentSort = [key |-> "positions", direction |-> "asc"]
    /\ Reordered
    /\ Len(allAvailablePlayersData) >= 3
    /\ ~Has(allAvailablePlayersData[1], "positions")
    /\ FieldOrEmpty(allAvailablePlayersData[2], "positions")
          # FieldOrEmpty(allAvailablePlayersData[3], "positions")

----------------------------------------------------------------------------
(* C7 *)

----------------------------------------------------------------------------
(* C8 *)

\* Two players compare equal under a sort key: the comparator sees the same
\* value for both.
KeysEqual(a, b, key) == sortValue(a, key) = sortValue(b, key)

\* C8: every sort is stable: two rows whose sort keys compare equal under
\* the sort state of the sort are, afterwards, in the relative order they had
\* in the array handed to the sort.
C8_SortStable ==
    [][phase' = "ready" =>
         \A i, j \in 1..Len(SortInput) :
            (i < j /\ KeysEqual(SortInput[i], SortInput[j], currentSort'.key))
               => PosOf(allAvailablePlayersData', SortInput[i].id)
                     < PosOf(allAvailablePlayersData', SortInput[j].id)]_vars

\* A sort that moved rows and left two rows with equal keys next to a row
\* with a different key.
C8_Witness ==
    /\ phase = "ready"
    /\ clicked # "none"
    /\ Reordered
    /\ \E i, j, k \in Rows :
          /\ i < j
          /\ KeysEqual(allAvailablePlayersData[i], allAvailablePlayersData[j], currentSort.key)
          /\ ~KeysEqual(allAvailablePlayersData[i], allAvailablePlayersData[k], currentSort.key)

----------------------------------------------------------------------------
(* C9 *)

\* C9: the displayed sequence is a fixed point of the sort: sorting it again
\* with the sort state it was sorted with gives the identical sequence.
C9_SortIdempotent ==
    phase = "ready" =>
        sortAndRerenderTable(allAvailablePlayersData, currentSort).players
            = allAvailablePlayersData

----------------------------------------------------------------------------
(* C10 *)

\* No two of the stored players have equal sort keys under key.
NoTies(key) ==
    \A i, j \in Rows :
        i # j => ~KeysEqual(allAvailablePlayersData[i], allAvailablePlayersData[j], key)

\* C10: for every key under which no two of the stored players tie, the
\* ascending sort reversed is the descending sort.
C10_DirectionSymmetry ==
    phase = "ready" =>
        \A key \in SortKeySet :
            NoTies(key) =>
                Reverse(ArraySort(allAvailablePlayersData, key, "asc"))
                    = ArraySort(allAvailablePlayersData, key, "desc")

\* Three players sorted by gaa, no two with the same gaa and one without
\* gaa, in an order that neither direction leaves unchanged.
C10_Witness ==
    /\ phase = "ready"
    /\ clicked = "gaa"
    /\ Len(allAvailablePlayersData) >= 3
    /\ NoTies("gaa")
    /\ \E i \in Rows : "gaa" \notin DOMAIN allAvailablePlayersData[i].weekly_projections
    /\ Reordered

----------------------------------------------------------------------------
(* C11 *)

\* The players as the response listed them: in the order of their
\* identities and without the cat_coverage_rank the rendering adds.
FetchedPlayers ==
    [i \in Rows |->
        LET player == allAvailablePlayersData[PosOf(allAvailablePlayersData, i)]
        IN  [p \in (DOMAIN player) \ {"cat_coverage_rank"} |-> player[p]]]

DefaultSort == [key |-> "cat_coverage_rank", direction |-> "asc"]

\* The rows displayed by the shortest click history that ends in sortState:
\* no click for the default state, one click on the key for its first
\* direction, two clicks for the other direction.
ShortestHistoryRows(sortState) ==
    LET initial == sortAndRerenderTable(FetchedPlayers, DefaultSort).players
        first == toggleSort(DefaultSort, sortState.key)
        once == sortAndRerenderTable(initial, first).players
    IN  IF sortState = DefaultSort THEN initial
        ELSE IF sortState = first THEN once
        ELSE sortAndRerenderTable(once, toggleSort(first, sortState.key)).players

\* C11: the order of the rows displayed is a function of the fetched player
\* sequence and the current sort state only: whatever the click history,
\* the rows are in the order that the shortest history ending in the same
\* sort state displays.
C11_OrderDependsOnSortStateOnly ==
    phase = "ready" =>
        [i \in Rows |-> allAvailablePlayersData[i].id]
            = [i \in Rows |-> ShortestHistoryRows(currentSort)[i].id]

----------------------------------------------------------------------------
(* C12 *)

\* The properties of a player other than the stored coverage rank.
RecordFields(player) == [p \in (DOMAIN player) \ {"cat_coverage_rank"} |-> player[p]]

\* C12: a sort changes only the order of the rows: the sorted array holds
\* exactly the players handed to the sort, each once, and the name, team,
\* positions, availability, games and projections of each are unchanged.
C12_SortPermutesOnly ==
    [][phase' = "ready" =>
         /\ Len(allAvailablePlayersData') = Len(SortInput)
         /\ Len(tbody') = Len(SortInput)
         /\ \A i \in 1..Len(SortInput) :
               /\ Cardinality({j \in 1..Len(SortInput) :
                                  allAvailablePlayersData'[j].id = SortInput[i].id}) = 1
               /\ \A j \in 1..Len(SortInput) :
                     allAvailablePlayersData'[j].id = SortInput[i].id
                        => RecordFields(allAvailablePlayersData'[j]) = RecordFields(SortInput[i])]_vars

\* A header click has re-ordered three rows.
C12_Witness ==
    /\ phase = "ready"
    /\ clicked # "none"
    /\ Len(allAvailablePlayersData) >= 3
    /\ Reordered

----------------------------------------------------------------------------
(* C13 *)

\* C13: the sort state starts as {cat_coverage_rank, asc}, is that default
\* when the fetch completes, and afterwards changes only by a header click,
\* which makes the clicked key the sort key.
C13_SortStateLifecycle ==
    /\ currentSort = [key |-> "cat_coverage_rank", direction |-> "asc"]
    /\ [][/\ phase = "loading"
               => currentSort' = [key |-> "cat_coverage_rank", direction |-> "asc"]
          /\ currentSort' # currentSort
               => (phase = "ready" /\ phase' = "ready" /\ clicked' = currentSort'.key)]_vars

\* The fetch has completed with the default sort state and no click yet.
C13_Witness ==
    /\ phase = "ready"
    /\ clicked = "none"
    /\ Len(tbody) >= 2
    /\ currentSort = [key |-> "cat_coverage_rank", direction |-> "asc"]

----------------------------------------------------------------------------
(* C14 *)

\* C14: a header click issues no request: no response is awaited or in
\* flight afterwards, and the rows shown are exactly the players stored by
\* the completed fetch, re-ordered.
C14_ClickDoesNotFetch ==
    [][phase = "ready" =>
         /\ phase' = "ready"
         /\ response' = NoResponse
         /\ {allAvailablePlayersData'[i].id : i \in 1..Len(allAvailablePlayersData')}
               = {allAvailablePlayersData[i].id : i \in Rows}
         /\ [i \in 1..Len(tbody') |-> tbody'[i].id]
               = [i \in 1..Len(allAvailablePlayersData') |-> allAvailablePlayersData'[i].id]
         /\ Len(tbody') = Len(tbody)]_vars

\* After two header clicks the table still shows the three fetched players.
C14_Witness ==
    /\ phase = "ready"
    /\ response = NoResponse
    /\ clicked # "none"
    /\ currentSort.direction # (IF currentSort.key \in defaultAsc THEN "asc" ELSE "desc")
    /\ Len(tbody) = 3

----------------------------------------------------------------------------
(* C15 *)

\* C15: rendering always completes: an ok response always ends with the
\* table displayed, never in the error handler, whatever fields its
\* players lack.
C15_RenderingNeverRaises ==
    [][(phase = "loading" /\ response.status = "ok") => phase' = "ready"]_vars

----------------------------------------------------------------------------
(* Heatmap: getRankColor and the stat cells *)

\* Ranks offered to getRankColor lie in -RankSpan..RankSpan.
RankSpan == 22

STATS_FOR_HEATMAP == {"g", "a", "pts", "ppp", "sog", "hit", "blk"}

\* What a cell may read as its rank: null (no per_game_projections),
\* undefined (no such rank in them) or a number.
RankInputs ==
    {[kind |-> "null"], [kind |-> "undefined"]}
    \cup {[kind |-> "number", value |-> n] : n \in (0 - RankSpan)..RankSpan}

\* The empty style string.
NoColor == [colored |-> FALSE]

\* The style string for a hue.  The hue is kept in nineteenths of a degree,
\* hue19 = 19 * hue, which is an integer for every integer rank.
HslStyle(hue19) ==
    [colored |-> TRUE, hue19 |-> hue19, saturation |-> 70, lightness |-> 85,
     color |-> "#333"]

\* getRankColor accepting rank 0.
getRankColorFromZero(rank) ==
    IF rank.kind = "null" \/ rank.kind = "undefined" \/ rank.value < 0 \/ rank.value > 20
    THEN NoColor
    ELSE HslStyle(19 * 120 - (rank.value - 1) * 120)

\* getRankColor interpolating on rank instead of rank - 1.
getRankColorHueOnRank(rank) ==
    IF rank.kind = "null" \/ rank.kind = "undefined" \/ rank.value < 1 \/ rank.value > 20
    THEN NoColor
    ELSE HslStyle(19 * 120 - rank.value * 120)

\* getRankColor: hue = 120 - (rank - 1) * (120 / 19), times 19.
getRankColor(rank) ==
    IF rank.kind = "null" \/ rank.kind = "undefined" \/ rank.value < 1 \/ rank.value > 20
    THEN NoColor
    ELSE HslStyle(19 * 120 - (rank.value - 1) * 120)

\* colorStyle of one stat cell (the body of STATS_TO_DISPLAY.map).
statCellStyle(stat, rank) ==
    IF stat \in STATS_FOR_HEATMAP THEN getRankColor(rank) ELSE NoColor

PageIdle ==
    /\ phase = "idle"
    /\ response = NoResponse
    /\ allAvailablePlayersData = <<>>
    /\ currentSort = [key |-> "cat_coverage_rank", direction |-> "asc"]
    /\ clicked = "none"
    /\ tbody = <<>>

InitHeatmap ==
    /\ PageIdle
    /\ DaysIdle
    /\ AppIdle
    /\ cellStat \in {STATS_TO_DISPLAY[i] : i \in 1..Len(STATS_TO_DISPLAY)}
    /\ cellRank \in RankInputs
    /\ cellStyle = [rendered |-> FALSE]

\* Rendering of the cell.
RenderStatCell ==
    /\ ~cellStyle.rendered
    /\ cellStyle' = [rendered |-> TRUE, style |-> statCellStyle(cellStat, cellRank)]
    /\ UNCHANGED <<cellStat, cellRank, pageVars, dayVars, appVars>>

NextHeatmap == RenderStatCell

SpecHeatmap == InitHeatmap /\ [][NextHeatmap]_vars

\* The cell was rendered through getRankColor.
HeatmapCellRendered == cellStyle.rendered /\ cellStat \in STATS_FOR_HEATMAP

----------------------------------------------------------------------------
(* C16 *)

\* C16: a heatmap cell gets no colour exactly when its rank is null,
\* undefined, less than 1 or greater than 20, and a colour for every rank
\* from 1 to 20; ranks 0, 21 and null give no colour.
C16_ColorExactlyInRange ==
    HeatmapCellRendered =>
        /\ ~cellStyle.style.colored
              <=> (\/ cellRank.kind = "null"
                   \/ cellRank.kind = "undefined"
                   \/ (cellRank.kind = "number" /\ (cellRank.value < 1 \/ cellRank.value > 20)))
        /\ cellRank \in {[kind |-> "null"], [kind |-> "number", value |-> 0],
                         [kind |-> "number", value |-> 21]}
              => cellStyle.style = [colored |-> FALSE]

\* A cell with rank 0 rendered without colour.
C16_Witness ==
    /\ HeatmapCellRendered
    /\ cellRank = [kind |-> "number", value |-> 0]
    /\ ~cellStyle.style.colored

----------------------------------------------------------------------------
(* C17 *)

\* C17: for every rank from 1 to 20 the style has hue
\* 120 - (rank - 1) * (120 / 19), saturation 70, lightness 85 and
\* foreground #333; the hue is 120 at rank 1, 0 at rank 20, within 0..120,
\* and lower than the hue of every smaller rank.
C17_HueInterpolation ==
    (HeatmapCellRendered /\ cellRank.kind = "number"
        /\ cellRank.value >= 1 /\ cellRank.value <= 20) =>
        LET style == cellStyle.style
        IN  /\ style.colored
            /\ style.hue19 = 120 * 19 - (cellRank.value - 1) * 120
            /\ style.saturation = 70
            /\ style.lightness = 85
            /\ style.color = "#333"
            /\ cellRank.value = 1 => style.hue19 = 120 * 19
            /\ cellRank.value = 20 => style.hue19 = 0
            /\ style.hue19 >= 0
            /\ style.hue19 <= 120 * 19
            /\ \A smaller \in 1..(cellRank.value - 1) :
                  getRankColor([kind |-> "number", value |-> smaller]).hue19 > style.hue19

\* The cell of rank 20 rendered with hue 0.
C17_Witness ==
    /\ HeatmapCellRendered
    /\ cellRank = [kind |-> "number", value |-> 20]
    /\ cellStyle.style.colored
    /\ cellStyle.style.hue19 = 0

----------------------------------------------------------------------------
(* Back-to-back days: formatBackToBackDays *)

\* Largest number of tokens in a start_days string.
MaxDays == 3

dayOrder == <<"Mon", "Tue", "Wed", "Thu", "Fri", "Sat", "Sun">>

\* Tokens a start_days string is made of: the days and a token that is no
\* day.
DayTokens == {"Mon", "Tue", "Wed", "Thu", "Fri", "Sat", "Sun", "Xyz"}

\* The start_days strings, each as the token list dayString.split(', ')
\* yields; <<>> stands for the absent and the empty string.
DayStrings == UNION {[1..m -> DayTokens] : m \in 0..MaxDays}

\* dayOrder.indexOf(day), counted from 0, -1 when day is not in dayOrder.
indexOf(day) ==
    IF \E i \in 1..Len(dayOrder) : dayOrder[i] = day
    THEN (CHOOSE i \in 1..Len(dayOrder) : dayOrder[i] = day) - 1
    ELSE 0 - 1

\* prevDay, as the set holding it, empty for null.
prevDay(dayIndex) == IF dayIndex > 0 THEN {dayOrder[dayIndex]} ELSE {}

\* nextDay taking Mon as the day after Sun.
nextDayWraps(dayIndex) == {dayOrder[((dayIndex + 1) % 7) + 1]}

\* nextDay, as the set holding it, empty for null.
nextDay(dayIndex) == IF dayIndex < 6 THEN {dayOrder[dayIndex + 2]} ELSE {}

\* isB2B looking at the following day only.
isB2BNextOnly(day, daySet) == nextDay(indexOf(day)) \cap daySet # {}

isB2B(day, daySet) ==
    \/ prevDay(indexOf(day)) \cap daySet # {}
    \/ nextDay(indexOf(day)) \cap daySet # {}

RECURSIVE DistinctInOrder(_)
\* The tokens of days without the repetitions, in the order of their first
\* occurrence (the iteration order of new Set(days)).
DistinctInOrder(days) ==
    IF days = <<>> THEN <<>>
    ELSE LET front == DistinctInOrder(SubSeq(days, 1, Len(days) - 1))
         IN  IF \E i \in 1..Len(front) : front[i] = days[Len(days)]
             THEN front ELSE Append(front, days[Len(days)])

\* formatBackToBackDays mapping over daySet instead of days.
formatBackToBackDaysOverSet(days) ==
    IF days = <<>> THEN <<>>
    ELSE IF Len(days) < 2 THEN [i \in 1..Len(days) |-> [day |-> days[i], emphasized |-> FALSE]]
    ELSE LET daySet == {days[i] : i \in 1..Len(days)}
             distinct == DistinctInOrder(days)
         IN  [i \in 1..Len(distinct) |->
                 [day |-> distinct[i], emphasized |-> isB2B(distinct[i], daySet)]]

\* formatBackToBackDays: the entries of the returned string, in order, each
\* with whether it is wrapped in <b>.
formatBackToBackDays(days) ==
    IF days = <<>> THEN <<>>
    ELSE IF Len(days) < 2 THEN [i \in 1..Len(days) |-> [day |-> days[i], emphasized |-> FALSE]]
    ELSE LET daySet == {days[i] : i \in 1..Len(days)}
         IN  [i \in 1..Len(days) |-> [day |-> days[i], emphasized |-> isB2B(days[i], daySet)]]

InitDays ==
    /\ PageIdle
    /\ CellIdle
    /\ AppIdle
    /\ dayString \in DayStrings
    /\ formattedDays = [done |-> FALSE]

\* Rendering of the Start Days cell of a free agent.
FormatStartDays ==
    /\ ~formattedDays.done
    /\ formattedDays' = [done |-> TRUE, days |-> formatBackToBackDays(dayString)]
    /\ UNCHANGED <<dayString, pageVars, cellVars, appVars>>

NextDays == FormatStartDays

SpecDays == InitDays /\ [][NextDays]_vars

\* Number of a day in the week, Monday first; 0 for a token that is no day.
DayNumber(day) ==
    CASE day = "Mon" -> 1 [] day = "Tue" -> 2 [] day = "Wed" -> 3 [] day = "Thu" -> 4
      [] day = "Fri" -> 5 [] day = "Sat" -> 6 [] day = "Sun" -> 7 [] OTHER -> 0

\* The day right before or right after day is among the input.
NeighbourPresent(day) ==
    \E j \in 1..Len(dayString) :
        /\ DayNumber(dayString[j]) # 0
        /\ \/ DayNumber(dayString[j]) = DayNumber(day) + 1
           \/ DayNumber(dayString[j]) = DayNumber(day) - 1

InputHas(day) == \E j \in 1..Len(dayString) : dayString[j] = day

----------------------------------------------------------------------------
(* C18 *)

\* C18: a day of the input is emphasized exactly when the day right before
\* or right after it in the order Mon..Sun is in the input too; with fewer
\* than two entries nothing is emphasized, and Mon, Tue, Fri gives Mon and
\* Tue emphasized and Fri not.
C18_EmphasisIffNeighbour ==
    formattedDays.done =>
        /\ \A i \in 1..Len(formattedDays.days) :
              DayNumber(formattedDays.days[i].day) # 0
                 => (formattedDays.days[i].emphasized
                        <=> NeighbourPresent(formattedDays.days[i].day))
        /\ Len(dayString) < 2
              => \A i \in 1..Len(formattedDays.days) : ~formattedDays.days[i].emphasized
        /\ dayString = <<"Mon", "Tue", "Fri">>
              => formattedDays.days = <<[day |-> "Mon", emphasized |-> TRUE],
                                        [day |-> "Tue", emphasized |-> TRUE],
                                        [day |-> "Fri", emphasized |-> FALSE]>>

\* Mon, Tue, Fri formatted.
C18_Witness ==
    /\ formattedDays.done
    /\ dayString = <<"Mon", "Tue", "Fri">>
    /\ formattedDays.days[2].emphasized
    /\ ~formattedDays.days[3].emphasized

----------------------------------------------------------------------------
(* C19 *)

\* C19: the week does not wrap around: Mon is emphasized only when Tue is in
\* the input and Sun only when Sat is, so Sun, Mon gives neither emphasized.
C19_NoWraparound ==
    formattedDays.done =>
        /\ \A i \in 1..Len(formattedDays.days) :
              /\ (formattedDays.days[i].day = "Mon" /\ formattedDays.days[i].emphasized)
                    => InputHas("Tue")
              /\ (formattedDays.days[i].day = "Sun" /\ formattedDays.days[i].emphasized)
                    => InputHas("Sat")
        /\ dayString = <<"Sun", "Mon">>
              => formattedDays.days = <<[day |-> "Sun", emphasized |-> FALSE],
                                        [day |-> "Mon", emphasized |-> FALSE]>>

\* Sun, Mon formatted with neither emphasized.
C19_Witness ==
    /\ formattedDays.done
    /\ dayString = <<"Sun", "Mon">>
    /\ Len(formattedDays.days) = 2
    /\ ~formattedDays.days[1].emphasized
    /\ ~formattedDays.days[2].emphasized

----------------------------------------------------------------------------
(* C20 *)

\* C20: the result has one entry per input entry, in the input order, and
\* all occurrences of a day get the same emphasis; Mon, Mon gives two
\* entries, neither emphasized.
C20_OneEntryPerInputEntry ==
    formattedDays.done =>
        /\ Len(formattedDays.days) = Len(dayString)
        /\ \A i \in 1..Len(dayString) : formattedDays.days[i].day = dayString[i]
        /\ \A i, j \in 1..Len(dayString) :
              dayString[i] = dayString[j]
                 => formattedDays.days[i].emphasized = formattedDays.days[j].emphasized
        /\ dayString = <<"Mon", "Mon">>
              => formattedDays.days = <<[day |-> "Mon", emphasized |-> FALSE],
                                        [day |-> "Mon", emphasized |-> FALSE]>>

\* A day occurring twice next to its neighbour: both occurrences emphasized.
C20_Witness ==
    /\ formattedDays.done
    /\ dayString = <<"Tue", "Wed", "Tue">>
    /\ Len(formattedDays.days) = 3
    /\ formattedDays.days[1].emphasized
    /\ formattedDays.days[3].emphasized

----------------------------------------------------------------------------
(* Responses of the API: handleResponse and checkAuthStatus (api.js) *)

\* Status codes of the responses considered.
HttpStatuses == {200, 204, 401, 403, 500}

\* response.ok
ok(status) == status \in 200..299

\* The empty object {}.
EmptyObject == [prop \in {} |-> 0]

\* What response.headers.get("content-type") yields: null for an absent
\* header, else the string as the sequence of its parts ("" being <<>>).
ContentTypes ==
    {[present |-> FALSE],
     [present |-> TRUE, parts |-> <<>>],
     [present |-> TRUE, parts |-> <<"application/json">>],
     [present |-> TRUE, parts |-> <<"application/json", "; charset=utf-8">>],
     [present |-> TRUE, parts |-> <<"text/html", "; charset=utf-8">>]}

\* Bodies: text that is no JSON (response.json() rejects with a
\* SyntaxError), or a JSON object.
Bodies ==
    {[json |-> FALSE],
     [json |-> TRUE, value |-> EmptyObject],
     [json |-> TRUE, value |-> [error |-> "League not found"]],
     [json |-> TRUE, value |-> [error |-> ""]],
     [json |-> TRUE, value |-> [logged_in |-> TRUE]]}

HttpResponses == [status : HttpStatuses, contentType : ContentTypes, body : Bodies]

\* A promise rejected with an error of the given name and message.
Rejected(name, message, alerted, reloaded, bodyRead) ==
    [settled |-> TRUE, kind |-> "rejected", error |-> name, message |-> message,
     alerted |-> alerted, reloaded |-> reloaded, bodyRead |-> bodyRead]

\* A promise resolved to value.
Resolved(value, bodyRead) ==
    [settled |-> TRUE, kind |-> "resolved", value |-> value,
     alerted |-> FALSE, reloaded |-> FALSE, bodyRead |-> bodyRead]

\* The rejection of response.json() on a body that is no JSON; the message
\* is the parser's.
JsonRejected == Rejected("SyntaxError", [text |-> "parser"], FALSE, FALSE, TRUE)

\* contentType && contentType.indexOf("application/json") !== -1
isJsonContentType(contentType) ==
    /\ contentType.present
    /\ contentType.parts # <<>>
    /\ \E i \in 1..Len(contentType.parts) : contentType.parts[i] = "application/json"

\* handleResponse: how its promise settles and what it does to the window.
handleResponse(resp) ==
    IF resp.status = 401
    THEN Rejected("Error", [text |-> "Unauthorized"], TRUE, TRUE, FALSE)
    ELSE IF ~ok(resp.status)
    THEN IF ~resp.body.json THEN JsonRejected
         ELSE IF Has(resp.body.value, "error") /\ resp.body.value.error # ""
              THEN Rejected("Error", [text |-> resp.body.value.error], FALSE, FALSE, TRUE)
              ELSE Rejected("Error", [text |-> "HTTP error! status: ", status |-> resp.status],
                            FALSE, FALSE, TRUE)
    ELSE IF isJsonContentType(resp.contentType)
         THEN (IF ~resp.body.json THEN JsonRejected ELSE Resolved(resp.body.value, TRUE))
         ELSE Resolved(EmptyObject, FALSE)

\* checkAuthStatus from the arrival of the response on.
checkAuthStatus(resp) ==
    IF ~ok(resp.status) THEN Resolved([logged_in |-> FALSE], FALSE)
    ELSE IF ~resp.body.json THEN JsonRejected
    ELSE Resolved(resp.body.value, TRUE)

InitResponse ==
    /\ PageIdle
    /\ CellIdle
    /\ DaysIdle
    /\ MainLoaded
    /\ httpCall \in {"handleResponse", "checkAuthStatus"}
    /\ httpResponse \in HttpResponses
    /\ httpOutcome = [settled |-> FALSE]

\* A fetch function of api.js passes the response to handleResponse.
HandleResponse ==
    /\ httpCall = "handleResponse"
    /\ ~httpOutcome.settled
    /\ httpOutcome' = handleResponse(httpResponse)
    /\ UNCHANGED <<httpCall, httpResponse, pageVars, cellVars, dayVars, mainVars>>

\* checkAuthStatus receives the response of /api/auth/status.
CheckAuthStatus ==
    /\ httpCall = "checkAuthStatus"
    /\ ~httpOutcome.settled
    /\ httpOutcome' = checkAuthStatus(httpResponse)
    /\ UNCHANGED <<httpCall, httpResponse, pageVars, cellVars, dayVars, mainVars>>

NextResponse == HandleResponse \/ CheckAuthStatus

SpecResponse == InitResponse /\ [][NextResponse]_vars

----------------------------------------------------------------------------
(* C21 *)

\* C21: handleResponse settles every response in exactly one of four ways:
\* status 401 alerts, reloads the page and throws "Unauthorized" without
\* reading the body; any other response that is not ok throws an Error
\* carrying the error text of the body or else the HTTP status; an ok
\* response with a JSON content type resolves to the parsed body; any other
\* ok response resolves to {}.  checkAuthStatus never reloads the page and
\* resolves to {logged_in: false} for every response that is not ok.
C21_OneOutcomePerResponse ==
    httpOutcome.settled =>
        /\ (httpCall = "handleResponse" /\ httpResponse.status = 401)
              => httpOutcome = Rejected("Error", [text |-> "Unauthorized"], TRUE, TRUE, FALSE)
        /\ (httpCall = "handleResponse" /\ httpResponse.status # 401
                /\ ~ok(httpResponse.status))
              => /\ httpOutcome.kind = "rejected"
                 /\ httpOutcome.error = "Error"
                 /\ ~httpOutcome.reloaded
                 /\ \/ /\ httpResponse.body.json
                       /\ Has(httpResponse.body.value, "error")
                       /\ httpOutcome.message = [text |-> httpResponse.body.value.error]
                    \/ httpOutcome.message = [text |-> "HTTP error! status: ",
                                              status |-> httpResponse.status]
        /\ (httpCall = "handleResponse" /\ ok(httpResponse.status)
                /\ isJsonContentType(httpResponse.contentType))
              => /\ httpOutcome.kind = "resolved"
                 /\ httpResponse.body.json
                 /\ httpOutcome.value = httpResponse.body.value
        /\ (httpCall = "handleResponse" /\ ok(httpResponse.status)
                /\ ~isJsonContentType(httpResponse.contentType))
              => httpOutcome = Resolved(EmptyObject, FALSE)
        /\ httpCall = "checkAuthStatus"
              => /\ ~httpOutcome.reloaded
                 /\ ~ok(httpResponse.status)
                       => httpOutcome = Resolved([logged_in |-> FALSE], FALSE)

----------------------------------------------------------------------------
(* The main page: state, selectors and objects (main.js, ui.js) *)

\* Number of requests awaiting their response from which on the user waits
\* before the next click.
MaxPending == 2

\* The state of the main page as one record.
Main ==
    [leagueId |-> leagueId, myTeamSelector |-> myTeamSelector,
     opponentSelector |-> opponentSelector, currentRosterData |-> currentRosterData,
     freeAgentStartIndex |-> freeAgentStartIndex, allFreeAgents |-> allFreeAgents,
     containers |-> containers, addPlayer |-> addPlayer, dropPlayer |-> dropPlayer,
     transDate |-> transDate, requests |-> requests, analyses |-> analyses,
     lastFreeAgentsRequest |-> lastFreeAgentsRequest]

\* The main page takes the state m.
Becomes(m) ==
    /\ leagueId' = m.leagueId
    /\ myTeamSelector' = m.myTeamSelector
    /\ opponentSelector' = m.opponentSelector
    /\ currentRosterData' = m.currentRosterData
    /\ freeAgentStartIndex' = m.freeAgentStartIndex
    /\ allFreeAgents' = m.allFreeAgents
    /\ containers' = m.containers
    /\ addPlayer' = m.addPlayer
    /\ dropPlayer' = m.dropPlayer
    /\ transDate' = m.transDate
    /\ requests' = m.requests
    /\ analyses' = m.analyses
    /\ lastFreeAgentsRequest' = m.lastFreeAgentsRequest

\* Nothing but the main page is under consideration.
OthersIdle == PageIdle /\ CellIdle /\ DaysIdle /\ ApiIdle

othersVars == <<pageVars, cellVars, dayVars, apiVars>>

\* The values of seq as a set.
Range(seq) == {seq[i] : i \in 1..Len(seq)}

\* sel.value = v: the first option with that value becomes the selected
\* one; with no such option none is selected and sel.value reads "".
SetValue(sel, v) == Select(sel.options, IF v \in Range(sel.options) THEN v ELSE "")

\* A <select> after its options were replaced by the given ones: the first
\* option is the selected one.
WithOptions(options) == Select(options, IF options = <<>> THEN "" ELSE options[1])

\* ui.showLoading on a <select>.
LoadingSelect == WithOptions(<<"Loading...">>)

\* Object.keys(obj)
Keys(obj) == [i \in 1..Len(obj) |-> obj[i].key]

\* obj[key] || [], for an object whose values are lists.
ListAt(obj, key) ==
    IF \E i \in 1..Len(obj) : obj[i].key = key
    THEN obj[CHOOSE i \in 1..Len(obj) : obj[i].key = key].value
    ELSE <<>>

\* names.find(name => name !== value), undefined read as "".
FindOther(names, value) ==
    IF \E i \in 1..Len(names) : names[i] # value
    THEN names[CHOOSE i \in 1..Len(names) :
                   names[i] # value /\ \A j \in 1..(i - 1) : names[j] = value]
    ELSE ""

\* ui.populateTeamSelectors(myTeamSelector, opponentSelector, rosters)
populateTeamSelectors(m, rosters) ==
    LET teamNames == Keys(rosters)
        myTeamSel == SetValue(WithOptions(teamNames), m.myTeamSelector.value)
        opponentSel == SetValue(WithOptions(teamNames), m.opponentSelector.value)
    IN  [m EXCEPT !.myTeamSelector = myTeamSel,
                  !.opponentSelector =
                      IF myTeamSel.value = opponentSel.value /\ Len(teamNames) > 1
                      THEN SetValue(opponentSel, FindOther(teamNames, myTeamSel.value))
                      ELSE opponentSel]

\* The players of the rosters the server knows.
RosterA == <<[name |-> "A1"], [name |-> "A2"]>>

RosterB == <<[name |-> "B1"]>>

RosterC == <<[name |-> "C1"]>>

\* The bodies of the ok responses of /api/rosters: no team, an error text
\* instead of teams, one team, two teams of one league, two of another.
RosterBodies ==
    {<<>>,
     <<[key |-> "error", value |-> <<[text |-> "League not found"]>>]>>,
     <<[key |-> "A", value |-> RosterA]>>,
     <<[key |-> "A", value |-> RosterA], [key |-> "B", value |-> RosterB]>>,
     <<[key |-> "B", value |-> RosterB], [key |-> "C", value |-> RosterC]>>}

\* data.error, as a truth value.
HasError(data) == "error" \in Range(Keys(data))

\* The leagues of the user, and "" for no league chosen.
LeagueIds == {"", "L1"}

\* A request as fetch issued it, with the handler awaiting its response
\* and the run of handleRunAnalysis it belongs to (0 for none); latest
\* tells the free-agent request issued last from those issued before.
Request(kind, handler, analysis, m, start, transactions) ==
    [kind |-> kind, handler |-> handler, analysis |-> analysis,
     leagueId |-> m.leagueId, myTeam |-> m.myTeamSelector.value,
     opponent |-> m.opponentSelector.value, start |-> start,
     transactions |-> transactions, status |-> "pending",
     latest |-> kind = "free-agents"]

\* fetch: the request joins the requests awaiting their response.
Issue(m, request) ==
    [m EXCEPT !.requests =
                  Append([j \in 1..Len(m.requests) |->
                             [m.requests[j] EXCEPT !.latest = @ /\ ~request.latest]],
                         request),
              !.lastFreeAgentsRequest =
                  IF request.kind = "free-agents"
                  THEN [start |-> request.start, status |-> "pending",
                        overlapped |-> \E j \in 1..Len(m.requests) :
                                           m.requests[j].kind = "free-agents"]
                  ELSE m.lastFreeAgentsRequest]

\* ui.clearAllSections(allContainers)
clearAllSections(m) == [m EXCEPT !.containers = ContainersCleared]

----------------------------------------------------------------------------
(* Loading the rosters: handleLeagueChange and handleFetchAllRosters *)

\* handleLeagueChange up to its await, the change having made id the
\* selected league.
handleLeagueChange(m, id) ==
    IF id = "" THEN [m EXCEPT !.leagueId = id]
    ELSE Issue([m EXCEPT !.leagueId = id,
                         !.myTeamSelector = LoadingSelect,
                         !.opponentSelector = LoadingSelect,
                         !.containers = ContainersCleared],
               Request("rosters", "handleLeagueChange", 0, [m EXCEPT !.leagueId = id], 0, <<>>))

\* handleLeagueChange from the settling of api.fetchRosters on.
leagueChangeSettles(m, outcome) ==
    IF outcome.kind = "rejected" THEN populateTeamSelectors(m, <<>>)
    ELSE IF outcome.data = <<>> \/ HasError(outcome.data)
         THEN populateTeamSelectors([m EXCEPT !.currentRosterData = outcome.data], <<>>)
         ELSE populateTeamSelectors([m EXCEPT !.currentRosterData = outcome.data], outcome.data)

\* handleFetchAllRosters up to its await.
handleFetchAllRosters(m) ==
    IF m.leagueId = "" THEN m
    ELSE Issue([m EXCEPT !.containers =
                             [ContainersCleared EXCEPT !.rosters = [view |-> "loading"]]],
               Request("rosters", "handleFetchAllRosters", 0, m, 0, <<>>))

\* handleFetchAllRosters from the settling of api.fetchRosters on; building
\* the player table of an entry that is no list (the error text) throws.
allRostersSettles(m, outcome) ==
    IF outcome.kind = "rejected" THEN [m EXCEPT !.containers.rosters = [view |-> "error"]]
    ELSE LET shown == populateTeamSelectors([m EXCEPT !.currentRosterData = outcome.data],
                                            outcome.data)
         IN  IF HasError(outcome.data)
             THEN [shown EXCEPT !.containers.rosters = [view |-> "error"]]
             ELSE [shown EXCEPT !.containers.rosters =
                                    [view |-> "rosters", teams |-> Keys(outcome.data)]]

\* How api.fetchRosters may settle.
RosterOutcomes ==
    {[kind |-> "rejected"]} \cup {[kind |-> "ok", data |-> body] : body \in RosterBodies}

\* seq without its element i.
Remove(seq, i) == SubSeq(seq, 1, i - 1) \o SubSeq(seq, i + 1, Len(seq))

\* The request i has got its response: it awaits none any more, and when it
\* is the free-agent request issued last, the history tells how it settled.
Settled(m, i, outcome) ==
    [m EXCEPT !.requests = Remove(m.requests, i),
              !.lastFreeAgentsRequest =
                  IF m.requests[i].latest
                  THEN [m.lastFreeAgentsRequest EXCEPT !.status = outcome.kind]
                  ELSE m.lastFreeAgentsRequest]

\* The user does not wait before the next click.
RequestsLeft == Len(requests) < MaxPending

\* A change of the league selector, of the league id input or of the week
\* selector: handleLeagueChange runs up to its await.
ChangeLeague(id) ==
    /\ RequestsLeft
    /\ Becomes(handleLeagueChange(Main, id))
    /\ UNCHANGED othersVars

\* A click on the Load Raw Data button.
ClickLoadRawData ==
    /\ RequestsLeft
    /\ leagueId # ""
    /\ Becomes(handleFetchAllRosters(Main))
    /\ UNCHANGED othersVars

\* The user picks a team in one of the two team selectors (no listener).
SelectMyTeam(name) ==
    /\ name \in Range(myTeamSelector.options)
    /\ name # myTeamSelector.value
    /\ myTeamSelector' = SetValue(myTeamSelector, name)
    /\ UNCHANGED <<leagueId, opponentSelector, currentRosterData, freeAgentStartIndex,
                   allFreeAgents, containers, addPlayer, dropPlayer, transDate, requests,
                   analyses, lastFreeAgentsRequest, othersVars>>

SelectOpponent(name) ==
    /\ name \in Range(opponentSelector.options)
    /\ name # opponentSelector.value
    /\ opponentSelector' = SetValue(opponentSelector, name)
    /\ UNCHANGED <<leagueId, myTeamSelector, currentRosterData, freeAgentStartIndex,
                   allFreeAgents, containers, addPlayer, dropPlayer, transDate, requests,
                   analyses, lastFreeAgentsRequest, othersVars>>

\* The names a team selector can offer.
TeamNames == {"A", "B", "C", "error", "Loading..."}

\* api.fetchRosters settles for the handler that awaits request i.
RostersSettle(i, outcome) ==
    /\ i \in 1..Len(requests)
    /\ requests[i].kind = "rosters"
    /\ Becomes(IF requests[i].handler = "handleLeagueChange"
               THEN leagueChangeSettles(Settled(Main, i, outcome), outcome)
               ELSE allRostersSettles(Settled(Main, i, outcome), outcome))
    /\ UNCHANGED othersVars

InitSelectors == OthersIdle /\ MainLoaded

NextSelectors ==
    \/ \E id \in LeagueIds : ChangeLeague(id)
    \/ ClickLoadRawData
    \/ \E name \in TeamNames : SelectMyTeam(name)
    \/ \E name \in TeamNames : SelectOpponent(name)
    \/ \E i \in 1..(MaxPending + 2), outcome \in RosterOutcomes : RostersSettle(i, outcome)

SpecSelectors == InitSelectors /\ [][NextSelectors]_vars

----------------------------------------------------------------------------
(* The analysis of the week: handleRunAnalysis and its handlers *)

\* Results per page of free agents (ui.js: startIndex - 20, resultCount < 20).
PageSize == 20

\* The free agents the server knows, best first.
AgentNames ==
    <<"F01", "F02", "F03", "F04", "F05", "F06", "F07", "F08", "F09", "F10",
      "F11", "F12", "F13", "F14", "F15", "F16", "F17", "F18", "F19", "F20",
      "F21", "F22", "F23">>

\* data.free_agents of the response to /api/free-agents with start = start.
ServerAgents(start) ==
    IF start < 0 \/ start >= Len(AgentNames) THEN <<>>
    ELSE [i \in 1..Min2(PageSize, Len(AgentNames) - start) |-> [name |-> AgentNames[start + i]]]

\* The names of a list of players.
Names(players) == [i \in 1..Len(players) |-> players[i].name]

\* players.filter(p => p.name !== name)
RECURSIVE WithoutName(_, _)
WithoutName(players, name) ==
    IF players = <<>> THEN <<>>
    ELSE IF players[1].name = name THEN WithoutName(Tail(players), name)
         ELSE <<players[1]>> \o WithoutName(Tail(players), name)

\* The <select> of a transaction row offering the given players after the
\* placeholder option, which is the selected one.
PlayerSelect(players) == WithOptions(<<"">> \o Names(players))

RECURSIVE updateDynamicRosterFrom(_, _, _)
\* The loop of updateDynamicRoster from row i on, simulatedRoster holding
\* the roster after the rows before i.
updateDynamicRosterFrom(m, i, simulatedRoster) ==
    IF i >= MAX_TRANSACTIONS THEN m
    ELSE LET addPlayerName == m.addPlayer[i].value
             dropPlayerName == m.dropPlayer[i].value
             dropped == IF dropPlayerName # "" THEN WithoutName(simulatedRoster, dropPlayerName)
                        ELSE simulatedRoster
             found == {k \in 1..Len(m.allFreeAgents) : m.allFreeAgents[k].name = addPlayerName}
             added == IF addPlayerName # "" /\ found # {}
                      THEN Append(dropped, m.allFreeAgents[CHOOSE k \in found :
                                                               \A l \in found : k <= l])
                      ELSE dropped
         IN  IF i + 1 < MAX_TRANSACTIONS
             THEN updateDynamicRosterFrom(
                      [m EXCEPT !.dropPlayer[i + 1] =
                                    SetValue(PlayerSelect(added), m.dropPlayer[i + 1].value)],
                      i + 1, added)
             ELSE m

\* updateDynamicRoster()
updateDynamicRoster(m) ==
    updateDynamicRosterFrom(m, 0, ListAt(m.currentRosterData, m.myTeamSelector.value))

\* populateTransactionSimulator()
populateTransactionSimulator(m) ==
    updateDynamicRoster(
        [m EXCEPT !.addPlayer = [i \in TransactionRows |-> PlayerSelect(m.allFreeAgents)],
                  !.dropPlayer = [i \in TransactionRows |->
                                     PlayerSelect(ListAt(m.currentRosterData,
                                                         m.myTeamSelector.value))]])

\* The guards of the handlers: the handler goes on to its request.
BothTeamsChosen(m) ==
    m.leagueId # "" /\ m.myTeamSelector.value # "" /\ m.opponentSelector.value # ""

MatchupSends(m) == BothTeamsChosen(m) /\ m.myTeamSelector.value # m.opponentSelector.value

UtilizationSends(m) == m.leagueId # "" /\ m.myTeamSelector.value # ""

FreeAgentsSends(m) == BothTeamsChosen(m)

OptimalRosterSends(m) ==
    BothTeamsChosen(m) /\ m.myTeamSelector.value # m.opponentSelector.value

\* handleFetchMatchup up to its await, called by run a of handleRunAnalysis.
handleFetchMatchup(m, a) ==
    IF ~MatchupSends(m) THEN m
    ELSE Issue([m EXCEPT !.containers.matchup = [view |-> "loading"]],
               Request("matchup", "handleFetchMatchup", a, m, 0, <<>>))

\* handleFetchUtilization up to its await.
handleFetchUtilization(m, a) ==
    IF ~UtilizationSends(m) THEN m
    ELSE Issue([m EXCEPT !.containers.utilization = [view |-> "loading"]],
               Request("utilization", "handleFetchUtilization", a, m, 0, <<>>))

\* handleFetchFreeAgents(startIndex) up to its await.
handleFetchFreeAgents(m, startIndex, a) ==
    IF ~FreeAgentsSends(m) THEN [m EXCEPT !.freeAgentStartIndex = startIndex]
    ELSE Issue([m EXCEPT !.freeAgentStartIndex = startIndex,
                         !.containers.freeAgent = [view |-> "loading"]],
               Request("free-agents", "handleFetchFreeAgents", a, m, startIndex, <<>>))

\* handleFetchOptimalRoster up to its await.
handleFetchOptimalRoster(m) ==
    IF ~OptimalRosterSends(m) THEN m
    ELSE Issue([m EXCEPT !.containers.optimizer = [view |-> "loading"]],
               Request("optimizer", "handleFetchOptimalRoster", 0, m, 0, <<>>))

\* CollectTransactions taking every row with an add and a drop, dated or not.
RECURSIVE CollectTransactionsUndated(_, _)
CollectTransactionsUndated(m, i) ==
    IF i >= MAX_TRANSACTIONS THEN <<>>
    ELSE (IF m.addPlayer[i].value # "" /\ m.dropPlayer[i].value # ""
          THEN <<[add |-> m.addPlayer[i].value, drop |-> m.dropPlayer[i].value,
                  date |-> m.transDate[i]]>>
          ELSE <<>>)
         \o CollectTransactionsUndated(m, i + 1)

\* The transactions handleFetchSimulatedData collects from row i on.
RECURSIVE CollectTransactions(_, _)
CollectTransactions(m, i) ==
    IF i >= MAX_TRANSACTIONS THEN <<>>
    ELSE (IF m.addPlayer[i].value # "" /\ m.dropPlayer[i].value # "" /\ m.transDate[i] # ""
          THEN <<[add |-> m.addPlayer[i].value, drop |-> m.dropPlayer[i].value,
                  date |-> m.transDate[i]]>>
          ELSE <<>>)
         \o CollectTransactions(m, i + 1)

\* handleFetchSimulatedData up to its await.
handleFetchSimulatedData(m) ==
    IF ~BothTeamsChosen(m) THEN m
    ELSE IF CollectTransactions(m, 0) = <<>> THEN m
    ELSE Issue([m EXCEPT !.containers.matchup = [view |-> "loading"],
                         !.containers.utilization = [view |-> "loading"]],
               Request("simulate-week", "handleFetchSimulatedData", 0, m, 0,
                       CollectTransactions(m, 0)))

\* createFreeAgentPagination with a Previous button that is never disabled.
createFreeAgentPaginationPrevEnabled(startIndex, resultCount) ==
    [prevDisabled |-> FALSE, prevStart |-> startIndex - PageSize,
     nextDisabled |-> resultCount < PageSize, nextStart |-> startIndex + PageSize]

\* ui.createFreeAgentPagination(startIndex, resultCount, onPageChange): the
\* two buttons, each with the start index its click asks for.
createFreeAgentPagination(startIndex, resultCount) ==
    [prevDisabled |-> startIndex = 0, prevStart |-> startIndex - PageSize,
     nextDisabled |-> resultCount < PageSize, nextStart |-> startIndex + PageSize]

\* A run all of whose handlers have returned: the promise of an async
\* handler is pending while the handler awaits its response and fulfilled
\* once it has returned, early, at its end or out of its catch block.
RunOver(run) == "pending" \notin {run.matchup, run.utilization, run.freeAgents}

\* The place of analyses a new run takes: the first one whose run is over.
FreeRun(m) == CHOOSE a \in 1..MaxRuns : RunOver(m.analyses[a]) /\ \A b \in 1..(a - 1) : ~RunOver(m.analyses[b])

\* handleRunAnalysis going on as soon as the free-agent handler of run a
\* has returned, without Promise.all.
ContinueRunAnalysisAfterFreeAgents(m, a) ==
    IF a = 0 THEN m
    ELSE IF m.analyses[a].freeAgents = "pending" THEN m
         ELSE populateTransactionSimulator(
                  [m EXCEPT !.analyses[a].populated = m.analyses[a].populated + 1])

\* The promise of Promise.all of run a is fulfilled once none of its three
\* handlers is pending; populateTransactionSimulator runs then.
ContinueRunAnalysis(m, a) ==
    IF a = 0 THEN m
    ELSE IF ~RunOver(m.analyses[a]) THEN m
         ELSE populateTransactionSimulator(
                  [m EXCEPT !.analyses[a].populated = m.analyses[a].populated + 1])

\* handleRunAnalysis up to its await, and beyond it when no handler awaits.
handleRunAnalysis(m) ==
    IF m.leagueId = "" THEN m
    ELSE LET a == FreeRun(m)
             cleared == clearAllSections(m)
             afterMatchup == handleFetchMatchup(cleared, a)
             afterUtilization == handleFetchUtilization(afterMatchup, a)
             afterFreeAgents == handleFetchFreeAgents(afterUtilization, 0, a)
             run == [matchup |-> IF MatchupSends(cleared) THEN "pending" ELSE "fulfilled",
                     utilization |-> IF UtilizationSends(cleared) THEN "pending"
                                     ELSE "fulfilled",
                     freeAgents |-> IF FreeAgentsSends(cleared) THEN "pending"
                                    ELSE "fulfilled",
                     populated |-> 0]
         IN  ContinueRunAnalysis([afterFreeAgents EXCEPT !.analyses[a] = run], a)

\* handleFetchMatchup from the settling of api.fetchMatchup on.
matchupSettles(m, request, outcome) ==
    LET a == request.analysis
        shown == [m EXCEPT !.containers.matchup =
                               IF outcome.kind = "ok"
                               THEN [view |-> "matchup"]
                               ELSE [view |-> "error"]]
    IN  IF a = 0 THEN shown
        ELSE ContinueRunAnalysis(
                 [shown EXCEPT !.analyses[a].matchup = "fulfilled"], a)

\* handleFetchUtilization from the settling of api.fetchWeeklyUtilization on.
utilizationSettles(m, request, outcome) ==
    LET a == request.analysis
        shown == [m EXCEPT !.containers.utilization =
                               IF outcome.kind = "ok"
                               THEN [view |-> "utilization"]
                               ELSE [view |-> "error"]]
    IN  IF a = 0 THEN shown
        ELSE ContinueRunAnalysis(
                 [shown EXCEPT !.analyses[a].utilization = "fulfilled"], a)

\* handleFetchFreeAgents from the settling of api.fetchFreeAgents on: a
\* rejection goes to the catch block; a response is stored and then
\* rendered, and a response the table cannot be built from (no context, a
\* free agent without weekly_projections) goes to the catch block too.
freeAgentsSettles(m, request, outcome) ==
    LET a == request.analysis
        startIndex == request.start
        shown ==
            IF outcome.kind = "rejected"
            THEN [m EXCEPT !.containers.freeAgent = [view |-> "error"]]
            ELSE IF outcome.kind = "unrenderable"
            THEN [m EXCEPT !.allFreeAgents = outcome.free_agents,
                           !.containers.freeAgent = [view |-> "error"]]
            ELSE [m EXCEPT !.allFreeAgents = outcome.free_agents,
                           !.containers.freeAgent =
                               [view |-> "table", startIndex |-> startIndex,
                                agents |-> Names(outcome.free_agents),
                                pagination |-> createFreeAgentPagination(
                                                   startIndex, Len(outcome.free_agents))]]
    IN  IF a = 0 THEN shown
        ELSE ContinueRunAnalysis(
                 [shown EXCEPT !.analyses[a].freeAgents = "fulfilled"], a)

\* handleFetchOptimalRoster from the settling of api.fetchOptimalRoster on.
optimalRosterSettles(m, request, outcome) ==
    [m EXCEPT !.containers.optimizer =
                  IF outcome.kind = "ok" THEN [view |-> "lineup"] ELSE [view |-> "error"]]

\* handleFetchSimulatedData from the settling of api.fetchSimulatedData on.
simulatedDataSettles(m, request, outcome) ==
    IF outcome.kind = "ok"
    THEN [m EXCEPT !.containers.matchup = [view |-> "simulated"],
                   !.containers.utilization = [view |-> "simulated"]]
    ELSE [m EXCEPT !.containers.matchup = [view |-> "error"],
                   !.containers.utilization = [view |-> "error"]]

\* How the fetch of a request may settle.
Outcomes(request) ==
    IF request.kind = "free-agents"
    THEN {[kind |-> "rejected"],
          [kind |-> "ok", free_agents |-> ServerAgents(request.start)],
          [kind |-> "unrenderable", free_agents |-> ServerAgents(request.start)]}
    ELSE {[kind |-> "rejected"], [kind |-> "ok"]}

----------------------------------------------------------------------------
(* The main page: clicks, changes and settling requests *)

\* The main page is in the state m.
Is(m) ==
    /\ leagueId = m.leagueId
    /\ myTeamSelector = m.myTeamSelector
    /\ opponentSelector = m.opponentSelector
    /\ currentRosterData = m.currentRosterData
    /\ freeAgentStartIndex = m.freeAgentStartIndex
    /\ allFreeAgents = m.allFreeAgents
    /\ containers = m.containers
    /\ addPlayer = m.addPlayer
    /\ dropPlayer = m.dropPlayer
    /\ transDate = m.transDate
    /\ requests = m.requests
    /\ analyses = m.analyses
    /\ lastFreeAgentsRequest = m.lastFreeAgentsRequest

\* A click on the Run Analysis button.
ClickRunAnalysis ==
    /\ RequestsLeft
    /\ \E a \in 1..MaxRuns : RunOver(analyses[a])
    /\ Becomes(handleRunAnalysis(Main))
    /\ UNCHANGED othersVars

\* A click on the Previous button of the free-agent table.
ClickPrevious ==
    /\ RequestsLeft
    /\ containers.freeAgent.view = "table"
    /\ ~containers.freeAgent.pagination.prevDisabled
    /\ Becomes(handleFetchFreeAgents(Main, containers.freeAgent.pagination.prevStart, 0))
    /\ UNCHANGED othersVars

\* A click on the Next button of the free-agent table.
ClickNext ==
    /\ RequestsLeft
    /\ containers.freeAgent.view = "table"
    /\ ~containers.freeAgent.pagination.nextDisabled
    /\ Becomes(handleFetchFreeAgents(Main, containers.freeAgent.pagination.nextStart, 0))
    /\ UNCHANGED othersVars

\* A click on the Optimize button.
ClickOptimize ==
    /\ RequestsLeft
    /\ Becomes(handleFetchOptimalRoster(Main))
    /\ UNCHANGED othersVars

\* A click on the Simulate button.
ClickSimulate ==
    /\ RequestsLeft
    /\ Becomes(handleFetchSimulatedData(Main))
    /\ UNCHANGED othersVars

\* The rows of the transaction simulator the user edits.
MaxEditedRows == 2

EditedRows == 0..(MaxEditedRows - 1)

\* The players the user picks among those a <select> offers.
UserPicks == {"", "A1", "F01"}

\* The dates the user enters.
UserDates == {"", "2025-01-06"}

\* The user picks a free agent in the add selector of row i: onchange.
ChangeAddPlayer(i, name) ==
    /\ name \in Range(addPlayer[i].options)
    /\ name # addPlayer[i].value
    /\ Becomes(updateDynamicRoster([Main EXCEPT !.addPlayer[i].value = name]))
    /\ UNCHANGED othersVars

\* The user picks a player in the drop selector of row i: onchange.
ChangeDropPlayer(i, name) ==
    /\ name \in Range(dropPlayer[i].options)
    /\ name # dropPlayer[i].value
    /\ Becomes(updateDynamicRoster([Main EXCEPT !.dropPlayer[i].value = name]))
    /\ UNCHANGED othersVars

\* The user enters the date of row i (no listener).
ChangeTransDate(i, date) ==
    /\ date # transDate[i]
    /\ transDate' = [transDate EXCEPT ![i] = date]
    /\ UNCHANGED <<leagueId, myTeamSelector, opponentSelector, currentRosterData,
                   freeAgentStartIndex, allFreeAgents, containers, addPlayer, dropPlayer,
                   requests, analyses, lastFreeAgentsRequest, othersVars>>

\* The fetch of request i settles and the handler awaiting it goes on.
Settle(i, outcome) ==
    /\ i \in 1..Len(requests)
    /\ requests[i].kind # "rosters"
    /\ outcome \in Outcomes(requests[i])
    /\ Becomes(CASE requests[i].kind = "matchup" ->
                        matchupSettles(Settled(Main, i, outcome), requests[i], outcome)
                 [] requests[i].kind = "utilization" ->
                        utilizationSettles(Settled(Main, i, outcome), requests[i], outcome)
                 [] requests[i].kind = "free-agents" ->
                        freeAgentsSettles(Settled(Main, i, outcome), requests[i], outcome)
                 [] requests[i].kind = "optimizer" ->
                        optimalRosterSettles(Settled(Main, i, outcome), requests[i], outcome)
                 [] OTHER ->
                        simulatedDataSettles(Settled(Main, i, outcome), requests[i], outcome))
    /\ UNCHANGED othersVars

\* The outcomes of all the kinds of request.
AllOutcomes ==
    {[kind |-> "rejected"], [kind |-> "ok"]}
    \cup {[kind |-> k, free_agents |-> ServerAgents(start)] :
             k \in {"ok", "unrenderable"}, start \in {0, PageSize, 2 * PageSize}}

\* The main page once the user has chosen league L1 and the teams A and B
\* and a click on Run Analysis has run to its end.
AnalysedPage ==
    populateTransactionSimulator(
        [leagueId |-> "L1",
         myTeamSelector |-> Select(<<"A", "B">>, "A"),
         opponentSelector |-> Select(<<"A", "B">>, "B"),
         currentRosterData |-> <<[key |-> "A", value |-> RosterA],
                                 [key |-> "B", value |-> RosterB]>>,
         freeAgentStartIndex |-> 0,
         allFreeAgents |-> ServerAgents(0),
         containers |->
             [rosters |-> [view |-> "empty"],
              matchup |-> [view |-> "matchup"],
              optimizer |-> [view |-> "empty"],
              utilization |-> [view |-> "utilization"],
              freeAgent |-> [view |-> "table", startIndex |-> 0,
                             agents |-> Names(ServerAgents(0)),
                             pagination |-> createFreeAgentPagination(
                                                0, Len(ServerAgents(0)))]],
         addPlayer |-> [i \in TransactionRows |-> Select(<<"">>, "")],
         dropPlayer |-> [i \in TransactionRows |-> Select(<<"">>, "")],
         transDate |-> [i \in TransactionRows |-> ""],
         requests |-> <<>>,
         analyses |-> [a \in 1..MaxRuns |-> NoRun],
         lastFreeAgentsRequest |-> [start |-> 0, status |-> "ok", overlapped |-> FALSE]])

\* The main page once the user has chosen league L1 and handleLeagueChange
\* has run to its end, the server knowing the teams A and B.
LeaguePage ==
    [leagueId |-> "L1",
     myTeamSelector |-> Select(<<"A", "B">>, ""),
     opponentSelector |-> Select(<<"A", "B">>, "A"),
     currentRosterData |-> <<[key |-> "A", value |-> RosterA],
                             [key |-> "B", value |-> RosterB]>>,
     freeAgentStartIndex |-> 0,
     allFreeAgents |-> <<>>,
     containers |-> ContainersCleared,
     addPlayer |-> [i \in TransactionRows |-> Select(<<"">>, "")],
     dropPlayer |-> [i \in TransactionRows |-> Select(<<"">>, "")],
     transDate |-> [i \in TransactionRows |-> ""],
     requests |-> <<>>,
     analyses |-> [a \in 1..MaxRuns |-> NoRun],
     lastFreeAgentsRequest |-> NoRequest]

\* Run Analysis and the pages of the free agents, from the page after a
\* league change or after a first analysis.
InitAnalysis ==
    /\ OthersIdle
    /\ Is(LeaguePage) \/ Is(AnalysedPage)

NextAnalysis ==
    \/ \E name \in TeamNames : SelectMyTeam(name)
    \/ ClickRunAnalysis
    \/ ClickPrevious
    \/ ClickNext
    \/ \E i \in 1..(MaxPending + 2), outcome \in AllOutcomes : Settle(i, outcome)

SpecAnalysis == InitAnalysis /\ [][NextAnalysis]_vars

\* The transaction simulator after a first analysis.
InitSimulator ==
    /\ OthersIdle
    /\ Is(AnalysedPage)

NextSimulator ==
    \/ \E i \in EditedRows, name \in UserPicks : ChangeAddPlayer(i, name)
    \/ \E i \in EditedRows, name \in UserPicks : ChangeDropPlayer(i, name)
    \/ \E i \in EditedRows, date \in UserDates : ChangeTransDate(i, date)
    \/ ClickNext
    \/ ClickSimulate
    \/ \E i \in 1..(MaxPending + 2), outcome \in AllOutcomes : Settle(i, outcome)

SpecSimulator == InitSimulator /\ [][NextSimulator]_vars

\* The buttons that send the teams, after a first analysis and with the
\* first transaction row filled in.
InitGuards ==
    /\ OthersIdle
    /\ Is(updateDynamicRoster([AnalysedPage EXCEPT !.addPlayer[0].value = "F01",
                                                   !.dropPlayer[0].value = "A1",
                                                   !.transDate[0] = "2025-01-06"]))

NextGuards ==
    \/ \E name \in TeamNames : SelectMyTeam(name)
    \/ ClickRunAnalysis
    \/ ClickOptimize
    \/ ClickSimulate
    \/ \E i \in 1..(MaxPending + 2), outcome \in AllOutcomes : Settle(i, outcome)

SpecGuards == InitGuards /\ [][NextGuards]_vars

----------------------------------------------------------------------------
(* C22 *)

\* C22: after updateDynamicRoster the drop selector of every row i >= 1
\* offers exactly the roster of my team with every player dropped in the
\* rows 0..i-1 removed and every free agent added in the rows 0..i-1
\* appended, the drop of a row applied before its add; the drop selected in
\* row i before is kept if that player is still offered and cleared if
\* not, so that no player is selected for drop in two rows unless added
\* again in between.
C22_DropOptionsFollowRows ==
    [][LET roster == Names(ListAt(currentRosterData', myTeamSelector'.value))
           expected[i \in TransactionRows] ==
               IF i = 0 THEN roster
               ELSE LET kept == SelectSeq(expected[i - 1],
                                          LAMBDA name : name # dropPlayer'[i - 1].value)
                    IN  IF addPlayer'[i - 1].value # ""
                        THEN Append(kept, addPlayer'[i - 1].value)
                        ELSE kept
       IN  /\ \A i \in TransactionRows \ {0} :
                 /\ dropPlayer'[i].options = <<"">> \o expected[i]
                 /\ dropPlayer'[i].options # dropPlayer[i].options
                    => dropPlayer'[i].value =
                           (IF dropPlayer[i].value \in Range(dropPlayer'[i].options)
                            THEN dropPlayer[i].value ELSE "")
           /\ \A i, j \in TransactionRows :
                 (i < j /\ dropPlayer'[i].value # ""
                        /\ dropPlayer'[i].value = dropPlayer'[j].value)
                 => \E k \in i..(j - 1) : addPlayer'[k].value = dropPlayer'[i].value]_vars

----------------------------------------------------------------------------
(* C23 *)

\* C23: when two free-agent fetches were in flight at once and both have
\* got their response, the free-agent table shown, allFreeAgents and
\* freeAgentStartIndex are those of the request issued last, in whatever
\* order the two responses arrived.
C23_LastIssuedFreeAgentsWins ==
    [][\A i \in 1..Len(requests) :
          (/\ requests[i].kind = "free-agents"
           /\ requests' = Remove(requests, i)
           /\ \A j \in 1..Len(requests') : requests'[j].kind # "free-agents"
           /\ lastFreeAgentsRequest'.status = "ok"
           /\ lastFreeAgentsRequest'.overlapped
           /\ containers'.freeAgent.view = "table")
          => /\ containers'.freeAgent.startIndex = lastFreeAgentsRequest'.start
             /\ containers'.freeAgent.agents =
                    Names(ServerAgents(lastFreeAgentsRequest'.start))
             /\ allFreeAgents' = ServerAgents(lastFreeAgentsRequest'.start)
             /\ freeAgentStartIndex' = lastFreeAgentsRequest'.start]_vars

----------------------------------------------------------------------------
(* C24 *)

\* C24: under any sequence of Run Analysis and Previous/Next clicks
\* freeAgentStartIndex is a non-negative multiple of 20; Previous is
\* disabled exactly when the start index of the page is 0, Next exactly
\* when the page holds fewer than 20 results, and a click asks for the
\* start index of the page minus or plus 20.
C24_StartIndexMultipleOfPageSize ==
    /\ [](/\ freeAgentStartIndex >= 0
          /\ freeAgentStartIndex % 20 = 0
          /\ containers.freeAgent.view = "table"
                 => /\ containers.freeAgent.pagination.prevDisabled
                           <=> containers.freeAgent.startIndex = 0
                    /\ containers.freeAgent.pagination.nextDisabled
                           <=> Len(containers.freeAgent.agents) < 20)
    /\ [][\A startIndex \in -40..80 :
             (/\ containers.freeAgent.view = "table"
              /\ requests' # requests
              /\ Becomes(handleFetchFreeAgents(Main, startIndex, 0)))
             => \/ /\ startIndex = containers.freeAgent.startIndex - 20
                   /\ containers.freeAgent.startIndex # 0
                \/ /\ startIndex = containers.freeAgent.startIndex + 20
                   /\ Len(containers.freeAgent.agents) >= 20]_vars

\* C24 witness: the second page is shown after a click on Next; Previous
\* is enabled and Next, with 3 results, is not.
C24_SecondPageShown ==
    /\ freeAgentStartIndex = 20
    /\ containers.freeAgent.view = "table"
    /\ containers.freeAgent.startIndex = 20
    /\ ~containers.freeAgent.pagination.prevDisabled
    /\ containers.freeAgent.pagination.nextDisabled

----------------------------------------------------------------------------
(* C25 *)

\* C25: every request that names two teams (matchup, optimizer,
\* free-agents, simulate-week) is sent only with a league id, my team and
\* an opponent that are all non-empty and with my team other than the
\* opponent; if not, the handler returns without a request.
C25_TwoTeamRequestsNameTwoTeams ==
    \A i \in 1..Len(requests) :
        requests[i].kind \in {"matchup", "optimizer", "free-agents", "simulate-week"}
        => /\ requests[i].leagueId # ""
           /\ requests[i].myTeam # ""
           /\ requests[i].opponent # ""
           /\ requests[i].myTeam # requests[i].opponent

----------------------------------------------------------------------------
(* C26 *)

\* C26: handleFetchSimulatedData sends a simulate-week request only if one
\* of the four transaction rows at least has its add, its drop and its date
\* set; the transactions sent are exactly the fully filled rows in the
\* order of the rows, without the partially filled ones; with no row fully
\* filled nothing is sent and the matchup and the utilization container are
\* left as they are.
C26_FilledRowsAreSent ==
    [][Becomes(handleFetchSimulatedData(Main))
       => LET filled == {i \in TransactionRows :
                            /\ addPlayer[i].value # ""
                            /\ dropPlayer[i].value # ""
                            /\ transDate[i] # ""}
          IN  IF filled = {}
              THEN /\ requests' = requests
                   /\ containers'.matchup = containers.matchup
                   /\ containers'.utilization = containers.utilization
              ELSE /\ Len(requests') = Len(requests) + 1
                   /\ requests'[Len(requests')].kind = "simulate-week"
                   /\ LET sent == requests'[Len(requests')].transactions
                      IN  /\ Len(sent) = Cardinality(filled)
                          /\ \E row \in [1..Len(sent) -> filled] :
                                /\ \A k, l \in 1..Len(sent) : k < l => row[k] < row[l]
                                /\ \A k \in 1..Len(sent) :
                                      sent[k] = [add |-> addPlayer[row[k]].value,
                                                 drop |-> dropPlayer[row[k]].value,
                                                 date |-> transDate[row[k]]]]_vars

\* C26 witness: a simulate-week request awaits its response with row 1 as
\* its only transaction, row 0 having an add and a date but no drop.
C26_PartialRowOmitted ==
    \E i \in 1..Len(requests) :
        /\ requests[i].kind = "simulate-week"
        /\ addPlayer[0].value # "" /\ dropPlayer[0].value = "" /\ transDate[0] # ""
        /\ requests[i].transactions =
               <<[add |-> addPlayer[1].value, drop |-> dropPlayer[1].value,
                  date |-> transDate[1]]>>
        /\ containers.matchup.view = "loading"

----------------------------------------------------------------------------
(* C27 *)

\* C27: in every run of handleRunAnalysis with a league selected,
\* populateTransactionSimulator has run once when the matchup, the
\* utilization and the free-agent handler have all returned, early, with
\* success or with a failure, and not at all before; a free-agent fetch
\* that fails leaves allFreeAgents as it was.
C27_PopulatedOncePerRun ==
    /\ [](\A a \in 1..MaxRuns :
             analyses[a].populated =
                 (IF analyses[a] # NoRun /\ RunOver(analyses[a]) THEN 1 ELSE 0))
    /\ [][\A i \in 1..Len(requests) :
             (/\ requests[i].kind = "free-agents"
              /\ Becomes(freeAgentsSettles(Settled(Main, i, [kind |-> "rejected"]),
                                           requests[i], [kind |-> "rejected"])))
             => allFreeAgents' = allFreeAgents]_vars

\* C27 witness: a run is over with a rejected free-agent fetch, the
\* simulator populated once and the free agents of the run before kept.
C27_RunOverAfterRejection ==
    /\ analyses[1] # NoRun
    /\ RunOver(analyses[1])
    /\ analyses[1].populated = 1
    /\ lastFreeAgentsRequest.status = "rejected"
    /\ containers.freeAgent.view = "error"
    /\ allFreeAgents = ServerAgents(0)

----------------------------------------------------------------------------
(* C28 *)

\* A handler awaiting the rosters settles in this step.
RostersSettling ==
    \E i \in 1..Len(requests) :
        /\ requests[i].kind = "rosters"
        /\ requests' = Remove(requests, i)

\* C28: whenever handleLeagueChange or handleFetchAllRosters has settled,
\* with success or with an error, the options of the my-team and of the
\* opponent selector are exactly the keys of currentRosterData, and with two
\* teams or more the two selectors do not hold the same team.
C28_SelectorsMatchRosterData ==
    [][RostersSettling =>
          /\ myTeamSelector'.options = Keys(currentRosterData')
          /\ opponentSelector'.options = Keys(currentRosterData')
          /\ Len(Keys(currentRosterData')) >= 2
                => myTeamSelector'.value # opponentSelector'.value]_vars

----------------------------------------------------------------------------
(* C29 *)

\* C29: a token of the input that is not one of Mon..Sun is never
\* emphasized, and a day is emphasized only when a day of Mon..Sun next to
\* it is in the input, so that such a token never makes a day emphasized.
C29_NonDayTokenInert ==
    formattedDays.done =>
        \A i \in 1..Len(formattedDays.days) :
            /\ DayNumber(formattedDays.days[i].day) = 0
                  => ~formattedDays.days[i].emphasized
            /\ (DayNumber(formattedDays.days[i].day) # 0 /\ formattedDays.days[i].emphasized)
                  => NeighbourPresent(formattedDays.days[i].day)

====
